---------------------------- MODULE Spec2Model ----------------------------
(***************************************************************************)
(* AgentSync: the engineer-log query engine (logBackend), the session      *)
(* sync pipeline (pullFabioSessions) and the background sync coordinator.  *)
(*                                                                         *)
(* Conventions of the model                                                *)
(*   - a string is a sequence of one-character strings;                    *)
(*   - a JSON value is a tagged record [t |-> <typeof>, ...];              *)
(*   - a time stamp is a whole number of days since the epoch (one day is  *)
(*     86 400 000 ms); a score is kept doubled, so that the recency bonus  *)
(*     25 - ageDays / 2 stays an integer.                                  *)
(***************************************************************************)
EXTENDS Integers, Sequences, FiniteSets, TLC

VARIABLES
    \* ---- queryEngineerTasks (logBackend)
    options,      \* QueryTaskOptions of the call
    tree,         \* the file system below and including teamRoot
    nowMs,        \* Date.now() of the call, in days
    allTasks,     \* the handler's local allTasks
    result,       \* the value the call resolved to (NoResult before)
    locals,       \* the other locals of the call that live across its waits
    pendingWrite, \* what another callback is about to do to the file system
    \* ---- extractTasksFromJsonl
    hits,         \* the value the call resolved to (NoResult before)
    \* ---- filterAndDedupeRows
    cacheRows,    \* rows: SessionCacheRow[]
    cliOptions,   \* options: CliOptions (engineerId, host, source, limit)
    selectedRows, \* the value returned (NoResult before)
    \* ---- the sync coordinator
    syncRunning,  \* the running flag
    syncPending,  \* the pending flag
    runsStarted,  \* sync runs started so far
    runsFinished, \* sync runs that have ended so far
    lastOutcome,  \* how the last run to end ended: "none", "ok", "failed"
    enqueueLog,   \* per enqueue call, the number of the run in flight (0: none)
    enqueueThrew, \* whether a failure has reached a caller of enqueue
    \* ---- pullFabioSessions
    pullInput,    \* input: PullFabioSessionsOptions
    pullEnv,      \* the environment: variable, configuration file, daemon cache
    pendingEnv,   \* what another process is about to do to the file and the cache
    pullPhase,    \* "idle", "start", the wait the call is at, "dumping" or "done"
    pullApiKey,   \* the call's local apiKey (Undefined before line 494)
    pullResult,   \* what the call resolved to (NoResult before)
    ioLog,        \* the reads, queries, mkdirs and fetches made, in order
    cursor,       \* cursor of mapWithConcurrency
    workers,      \* per worker of mapWithConcurrency, [state, index]
    dumpResults,  \* out of mapWithConcurrency
    outFiles,     \* the files written, as [path, content]
    \* ---- sanitizeFileName
    fileName,     \* value: string
    sanitized,    \* the value returned (NoResult before)
    \* ---- walkJsonlFiles
    walked,       \* the value the call resolved to (NoResult before)
    \* ---- computeScore
    scoreItem,    \* item: RawTaskHit
    scorePrompt,  \* options.prompt, the query the score is computed for
    scoreValue,   \* the value returned, doubled (NoResult before)
    \* ---- listEngineerLogs
    listed,       \* the value the call resolved to (NoResult before)
    \* ---- index.ts: the animation gates of queryWithDashboard
    pendingAnimationGates,  \* Map<sessionId, AnimationGate[]>: a function on its keys
    dashboardCalls          \* per call of queryWithDashboard: [sessionId, phase, settled, woke]

queryVars   == <<options, tree, nowMs, allTasks, result, locals, pendingWrite>>
extractVars == <<hits>>
dedupeVars  == <<cacheRows, cliOptions, selectedRows>>
coordVars   == <<syncRunning, syncPending, runsStarted, runsFinished, lastOutcome,
                 enqueueLog, enqueueThrew>>
pullVars    == <<pullInput, pullEnv, pendingEnv, pullPhase, pullApiKey, pullResult, ioLog,
                 cursor, workers, dumpResults, outFiles>>
sanitizeVars == <<fileName, sanitized>>
walkVars    == <<walked>>
scoreVars   == <<scoreItem, scorePrompt, scoreValue>>
listVars    == <<listed>>
gateVars    == <<pendingAnimationGates, dashboardCalls>>

-----------------------------------------------------------------------------
(* Bounds of the model *)

\* lines of the log files the query scans
MaxLines == 2
\* lines of the file handed to extractTasksFromJsonl
MaxFileLines == 3
\* rows handed to filterAndDedupeRows
MaxRows == 3
\* enqueue calls made on the sync coordinator
MaxEnqueues == 6
\* sessions of the largest cache a sync run dumps
MaxBatch == 7
\* sessions of the largest cache a dry run previews
MaxPreview == 13

-----------------------------------------------------------------------------
(* Values shared by the components *)

NoResult  == [t |-> "pending"]
Undefined == [t |-> "undefined"]
JNull     == [t |-> "null"]
JStr(s)   == [t |-> "string", v |-> s]
\* a finite number: days * 86 400 000 when ms, days * 86 400 otherwise
JNum(ms, days) == [t |-> "number", ms |-> ms, days |-> days]
JArr(items)    == [t |-> "array", v |-> items]
JObj(fields)   == [t |-> "object", v |-> fields]
SyntaxError    == [t |-> "SyntaxError"]
\* how a call ended: it returned v, or it threw
Ok(v)  == [t |-> "ok", v |-> v]
Thrown == [t |-> "error"]

\* record[key] of JavaScript on a parsed JSON value
Get(record, key) ==
    IF record.t = "object" /\ key \in DOMAIN record.v THEN record.v[key] ELSE Undefined

Min(a, b) == IF a < b THEN a ELSE b
Max(a, b) == IF a > b THEN a ELSE b

\* a sequence given by a function, as the tuple of its values
AsTuple(f) == SubSeq(f, 1, Len(f))

Indices(s) == AsTuple([i \in 1..Len(s) |-> i])

-----------------------------------------------------------------------------
(* Strings *)

UpperCase == <<"A","B","C","D","E","F","G","H","I","J","K","L","M",
               "N","O","P","Q","R","S","T","U","V","W","X","Y","Z">>
LowerCase == <<"a","b","c","d","e","f","g","h","i","j","k","l","m",
               "n","o","p","q","r","s","t","u","v","w","x","y","z">>
Digits    == {"0","1","2","3","4","5","6","7","8","9"}
UpperSet  == {UpperCase[i] : i \in 1..26}
LowerSet  == {LowerCase[i] : i \in 1..26}
Letters   == UpperSet \cup LowerSet
\* the characters \s matches, of those the model uses
WhiteSpace == {" ", "\t", "\n", "\r"}

LowerChar(c) ==
    IF c \in UpperSet
    THEN LowerCase[CHOOSE i \in 1..26 : UpperCase[i] = c]
    ELSE c

ToLowerCase(s) == AsTuple([i \in 1..Len(s) |-> LowerChar(s[i])])

\* String.prototype.includes
Includes(text, sub) ==
    \E i \in 0..(Len(text) - Len(sub)) :
        \A j \in 1..Len(sub) : text[i + j] = sub[j]

\* String.prototype.slice(0, n), n >= 0
SliceTo(s, n) == SubSeq(s, 1, Min(n, Len(s)))

\* String.prototype.trim
Trim(s) ==
    LET solid == SelectSeq(Indices(s), LAMBDA i : s[i] \notin WhiteSpace)
    IN  IF solid = <<>> THEN <<>>
        ELSE SubSeq(s, solid[1], solid[Len(solid)])


-----------------------------------------------------------------------------
(* logBackend: text helpers *)

\* text.replace(/\s+/g, " ").trim()
normalizeText_TrimOnly(text) == Trim(text)
normalizeText(text) ==
    LET kept == SelectSeq(Indices(text),
                    LAMBDA i : \/ text[i] \notin WhiteSpace
                               \/ i = 1
                               \/ text[i - 1] \notin WhiteSpace)
        collapsed == AsTuple([k \in 1..Len(kept) |->
                        IF text[kept[k]] \in WhiteSpace THEN " " ELSE text[kept[k]]])
    IN  Trim(collapsed)

\* /^\/[a-z0-9_-]+$/i
IsSlashCommand(s) ==
    /\ Len(s) >= 2
    /\ s[1] = "/"
    /\ \A i \in 2..Len(s) : s[i] \in Letters \cup Digits \cup {"_", "-"}

looksLikeActionableTask(text) ==
    LET trimmed == normalizeText(text)
    IN  IF trimmed = <<>> \/ Len(trimmed) < 4 THEN FALSE
        ELSE IF IsSlashCommand(trimmed) THEN FALSE
        ELSE TRUE

\* [a-z0-9]
TokenChars == LowerSet \cup Digits
IsTokenChar(c) == c \in TokenChars

\* query.toLowerCase().split(/[^a-z0-9]+/g).map(trim).filter(length > 1):
\* the maximal runs of [a-z0-9] longer than one character, in order, repeats kept
tokenize(query) ==
    LET lower == ToLowerCase(query)
        starts == SelectSeq(Indices(lower),
                    LAMBDA i : IsTokenChar(lower[i])
                               /\ (i = 1 \/ ~IsTokenChar(lower[i - 1])))
        EndOf(i) == CHOOSE j \in i..Len(lower) :
                        /\ \A k \in i..j : IsTokenChar(lower[k])
                        /\ (j = Len(lower) \/ ~IsTokenChar(lower[j + 1]))
        runs == AsTuple([k \in 1..Len(starts) |-> SubSeq(lower, starts[k], EndOf(starts[k]))])
    IN  SelectSeq(runs, LAMBDA token : Len(token) > 1)

-----------------------------------------------------------------------------
(* logBackend: time stamps *)

\* 1_000_000_000_000 ms, in whole days (11 574 days < 10^12 ms < 11 575 days)
MsThresholdDays == 11574

IsoDate == <<"2","0","2","4","-","1","0","-","0","1">>
\* Date.parse, on the date strings the model uses: [isNaN, days since the epoch]
DateParse(s) ==
    IF s = IsoDate THEN [isNaN |-> FALSE, days |-> 19997]
    ELSE [isNaN |-> TRUE, days |-> 0]

\* the result in days; a number at most 10^12 is taken for seconds
parseTimestampToMs(value) ==
    IF value.t = "number"
    THEN IF value.ms
         THEN IF value.days > MsThresholdDays THEN value.days ELSE value.days * 1000
         ELSE value.days
    ELSE IF value.t = "string" /\ ~DateParse(value.v).isNaN
    THEN DateParse(value.v).days
    ELSE 0

-----------------------------------------------------------------------------
(* logBackend: the record parser *)

DotCodex  == <<".","c","o","d","e","x">>
DotClaude == <<".","c","l","a","u","d","e">>

\* filePath.includes(`${sep}${segment}${sep}`); a path is its sequence of names
\* below "/", so every name follows a separator
PathHasSegment(filePath, segment) ==
    \E i \in 1..(Len(filePath) - 1) : filePath[i] = segment

\* the classifier with the display field consulted first
inferSource_DisplayFirst(filePath, record) ==
    IF Get(record, "display").t = "string" THEN "claude"
    ELSE IF \/ PathHasSegment(filePath, DotCodex)
            \/ Get(record, "ts").t = "number"
            \/ Get(record, "session_id").t = "string"
    THEN "codex"
    ELSE IF PathHasSegment(filePath, DotClaude) THEN "claude"
    ELSE "unknown"

\* lines 80-97
inferSource(filePath, record) ==
    IF \/ PathHasSegment(filePath, DotCodex)
       \/ Get(record, "ts").t = "number"
       \/ Get(record, "session_id").t = "string"
    THEN "codex"
    ELSE IF \/ PathHasSegment(filePath, DotClaude)
            \/ Get(record, "display").t = "string"
    THEN "claude"
    ELSE "unknown"

\* parts.join("\n")
RECURSIVE JoinLines(_)
JoinLines(parts) ==
    IF parts = <<>> THEN <<>>
    ELSE IF Len(parts) = 1 THEN parts[1]
    ELSE parts[1] \o <<"\n">> \o JoinLines(Tail(parts))

extractTextFromContent(content) ==
    IF content.t = "string" THEN content.v
    ELSE IF content.t = "array"
    THEN LET textual == SelectSeq(content.v,
                            LAMBDA part : \/ part.t = "string"
                                          \/ Get(part, "text").t = "string")
         IN  JoinLines(AsTuple([k \in 1..Len(textual) |->
                            IF textual[k].t = "string" THEN textual[k].v
                            ELSE Get(textual[k], "text").v]))
    ELSE <<>>

StringOrUndefined(value) == IF value.t = "string" THEN value ELSE Undefined

\* the RawTaskHit[] of one parsed line
extractTaskFromRecord(filePath, line, engineer, record) ==
    LET source == inferSource(filePath, record)
        ts == Get(record, "ts")
        timestamp == Get(record, "timestamp")
        message == Get(record, "message")
    IN  IF Get(record, "text").t = "string" /\ ts.t \in {"number", "string"}
        THEN << [engineer |-> engineer,
                 source |-> IF source = "unknown" THEN "codex" ELSE source,
                 text |-> normalizeText(Get(record, "text").v),
                 timestampMs |-> parseTimestampToMs(ts),
                 sessionId |-> StringOrUndefined(Get(record, "session_id")),
                 project |-> Undefined,
                 file |-> filePath,
                 line |-> line] >>
        ELSE IF Get(record, "display").t = "string" /\ timestamp.t \in {"number", "string"}
        THEN << [engineer |-> engineer,
                 source |-> IF source = "unknown" THEN "claude" ELSE source,
                 text |-> normalizeText(Get(record, "display").v),
                 timestampMs |-> parseTimestampToMs(timestamp),
                 sessionId |-> StringOrUndefined(Get(record, "sessionId")),
                 project |-> StringOrUndefined(Get(record, "project")),
                 file |-> filePath,
                 line |-> line] >>
        ELSE IF Get(record, "type").t = "string" /\ Get(record, "type").v = <<"u","s","e","r">>
        THEN << [engineer |-> engineer,
                 source |-> source,
                 text |-> normalizeText(
                            IF message.t = "object" /\ "content" \in DOMAIN message.v
                            THEN extractTextFromContent(message.v["content"])
                            ELSE IF message.t = "string" THEN message.v
                            ELSE <<>>),
                 timestampMs |-> parseTimestampToMs(timestamp),
                 sessionId |-> IF Get(record, "sessionId").t = "string"
                               THEN Get(record, "sessionId")
                               ELSE StringOrUndefined(Get(record, "session_id")),
                 project |-> Undefined,
                 file |-> filePath,
                 line |-> line] >>
        ELSE <<>>

-----------------------------------------------------------------------------
(* logBackend: the extraction engine *)

\* A line of a file is [blank, json]: whether it is empty once trimmed, and what
\* JSON.parse makes of it (SyntaxError when it throws).
BlankLine == [blank |-> TRUE, json |-> SyntaxError]
JsonParse(line) == line.json

\* what the loop iteration of index i (lines 344-372) appends to hits; the
\* JavaScript lines[i] is the (i + 1)-th line
HitsOfLine(filePath, engineer, lines, i) ==
    LET line == lines[i + 1]
        parsed == JsonParse(line)
    IN  IF line.blank THEN <<>>
        ELSE IF parsed.t = "SyntaxError" THEN <<>>
        ELSE IF parsed.t \notin {"object", "array"} THEN <<>>
        ELSE SelectSeq(extractTaskFromRecord(filePath, i + 1, engineer, parsed),
                       LAMBDA item : looksLikeActionableTask(item.text))

\* the loop, leaving the file at the first line that is not JSON
RECURSIVE ExtractLoop_StopsAtBadLine(_, _, _, _)
ExtractLoop_StopsAtBadLine(filePath, engineer, lines, i) ==
    IF i >= Len(lines) THEN <<>>
    ELSE IF ~lines[i + 1].blank /\ JsonParse(lines[i + 1]).t = "SyntaxError" THEN <<>>
    ELSE HitsOfLine(filePath, engineer, lines, i)
         \o ExtractLoop_StopsAtBadLine(filePath, engineer, lines, i + 1)

\* for (let i = 0; i < lines.length; i += 1), from index i on
RECURSIVE ExtractLoop(_, _, _, _)
ExtractLoop(filePath, engineer, lines, i) ==
    IF i >= Len(lines) THEN <<>>
    ELSE HitsOfLine(filePath, engineer, lines, i)
         \o ExtractLoop(filePath, engineer, lines, i + 1)

-----------------------------------------------------------------------------
(* The file system.  A node is a directory [name, kind |-> "dir", readable,    *)
(* entries] or a file [name, kind |-> "file", readable, lines]; entries are in *)
(* readdir order.  `tree` is the node of "/", and a path is the sequence of    *)
(* names below it.                                                             *)

Dir(name, readable, entries) ==
    [name |-> name, kind |-> "dir", readable |-> readable, entries |-> entries]
File(name, readable, lines) ==
    [name |-> name, kind |-> "file", readable |-> readable, lines |-> lines]

NotFound == [found |-> FALSE]
RECURSIVE Lookup(_, _)
Lookup(node, path) ==
    IF path = <<>> THEN [found |-> TRUE, node |-> node]
    ELSE IF node.kind # "dir" THEN NotFound
    ELSE IF \E i \in 1..Len(node.entries) : node.entries[i].name = path[1]
    THEN Lookup(node.entries[CHOOSE i \in 1..Len(node.entries) :
                                node.entries[i].name = path[1]], Tail(path))
    ELSE NotFound

\* fs.readdir(target, { withFileTypes: true })
Readdir(fs, target) ==
    LET at == Lookup(fs, target)
    IN  IF at.found /\ at.node.kind = "dir" /\ at.node.readable
        THEN Ok(at.node.entries)
        ELSE Thrown

\* fs.readFile(target, "utf8").split("\n")
ReadLines(fs, target) ==
    LET at == Lookup(fs, target)
    IN  IF at.found /\ at.node.kind = "file" /\ at.node.readable
        THEN Ok(at.node.lines)
        ELSE Thrown

\* fs.access succeeded
pathExists(fs, target) == Lookup(fs, target).found

\* what another callback is about to do to the file system: nothing, or
\* leave it as fs; Written once it has done so
NoWrite == [t |-> "none"]
Written == [t |-> "written"]
Write(fs) == [t |-> "pending", tree |-> fs]

\* the same for the configuration file and the daemon cache pullFabioSessions
\* reads: nothing, a rewrite to come, a rewrite made
NoChange == [t |-> "none"]
Changed  == [t |-> "changed"]
Change(env) == [t |-> "pending", env |-> env]

HomeDir == << <<"h","o","m","e">> >>
Tilde   == <<"~">>
expandHome(inputPath) ==
    IF inputPath # <<>> /\ inputPath[1] = Tilde
    THEN HomeDir \o Tail(inputPath)
    ELSE inputPath

extractTasksFromJsonl(fs, filePath, engineer) ==
    LET raw == ReadLines(fs, filePath)
    IN  IF raw.t = "error" THEN Thrown
        ELSE Ok(ExtractLoop(filePath, engineer, raw.v, 0))

-----------------------------------------------------------------------------
(* logBackend: the tree walker *)

LogName    == <<"l","o","g">>
DotJsonl   == <<".","j","s","o","n","l">>

EndsWith(name, suffix) ==
    /\ Len(name) >= Len(suffix)
    /\ SubSeq(name, Len(name) - Len(suffix) + 1, Len(name)) = suffix

\* teams && teams.length > 0 ? new Set(teams) : null, and selected.has(name)
\* the filter with an empty list selecting nothing
Selects_EmptyListExcludes(filter, name) ==
    \/ filter.t # "array"
    \/ \E i \in 1..Len(filter.v) : filter.v[i] = name
Selects(filter, name) ==
    \/ filter.t # "array"
    \/ Len(filter.v) = 0
    \/ \E i \in 1..Len(filter.v) : filter.v[i] = name

-----------------------------------------------------------------------------
(* logBackend: the relevance scorer.  Scores are doubled. *)

DEFAULT_LIMIT == 20
MAX_LIMIT == 200
\* text.slice(0, 600)
TextLimit == 600

CountIncluded(textLower, queryTokens) ==
    Len(SelectSeq(queryTokens, LAMBDA token : Includes(textLower, token)))

computeScore(item, queryLower, queryTokens, now) ==
    LET textLower == ToLowerCase(item.text)
        byQuery == IF queryLower = <<>> THEN 10
                   ELSE (IF Includes(textLower, queryLower) THEN 80 ELSE 0)
                        + 10 * CountIncluded(textLower, queryTokens)
        bySource == IF item.source \in {"codex", "claude"} THEN 5 ELSE 0
        ageDays == Max(0, now - item.timestampMs)
        byRecency2 == IF item.timestampMs > 0 THEN Max(0, 50 - ageDays) ELSE 0
    IN  2 * (byQuery + bySource) + byRecency2

\* the filter, passing every item when the query has no token
isEligible_TokenlessPasses(item, queryLower, queryTokens) ==
    LET textLower == ToLowerCase(item.text)
    IN  IF queryTokens = <<>> THEN TRUE
        ELSE IF Includes(textLower, queryLower) THEN TRUE
        ELSE \E k \in 1..Len(queryTokens) : Includes(textLower, queryTokens[k])

\* lines 417-421: the filter applied to a scored item
isEligible(item, queryLower, queryTokens) ==
    LET textLower == ToLowerCase(item.text)
    IN  IF queryLower = <<>> THEN TRUE
        ELSE IF Includes(textLower, queryLower) THEN TRUE
        ELSE \E k \in 1..Len(queryTokens) : Includes(textLower, queryTokens[k])

\* the comparator without its tie-break
compareMatches_ScoreOnly(a, b) == b.score - a.score

\* line 422: b.score - a.score || b.timestampMs - a.timestampMs
compareMatches(a, b) ==
    IF b.score - a.score # 0 THEN b.score - a.score
    ELSE b.timestampMs - a.timestampMs

\* Array.prototype.sort is stable: an item goes behind those it does not precede
InsertSorted(sorted, x) ==
    LET behind == {i \in 1..Len(sorted) : compareMatches(sorted[i], x) > 0}
        pos == IF behind = {} THEN Len(sorted) + 1
               ELSE CHOOSE i \in behind : \A j \in behind : i <= j
    IN  SubSeq(sorted, 1, pos - 1) \o <<x>> \o SubSeq(sorted, pos, Len(sorted))

RECURSIVE SortMatches(_)
SortMatches(items) ==
    IF items = <<>> THEN <<>>
    ELSE InsertSorted(SortMatches(SubSeq(items, 1, Len(items) - 1)), items[Len(items)])

\* the clamp without its lower end
clampLimit_NoFloor(limit) ==
    Min(IF limit.t = "number" THEN limit.n ELSE DEFAULT_LIMIT, MAX_LIMIT)

\* line 382; a limit is Undefined or [t |-> "number", n |-> an integer]
clampLimit(limit) ==
    Min(Max(IF limit.t = "number" THEN limit.n ELSE DEFAULT_LIMIT, 1), MAX_LIMIT)

\* lines 412-423
scoreAndRank(tasks, queryLower, queryTokens, now, limit) ==
    LET scored == AsTuple([k \in 1..Len(tasks) |->
                     [engineer |-> tasks[k].engineer,
                      source |-> tasks[k].source,
                      text |-> tasks[k].text,
                      timestampMs |-> tasks[k].timestampMs,
                      sessionId |-> tasks[k].sessionId,
                      project |-> tasks[k].project,
                      file |-> tasks[k].file,
                      line |-> tasks[k].line,
                      score |-> computeScore(tasks[k], queryLower, queryTokens, now)]])
        eligible == SelectSeq(scored, LAMBDA item : isEligible(item, queryLower, queryTokens))
    IN  SliceTo(SortMatches(eligible), limit)

\* lines 434-437
truncateText(item) == [item EXCEPT !.text = SliceTo(item.text, TextLimit)]

\* [...new Set(values)]
Distinct(values) ==
    LET firsts == SelectSeq(Indices(values),
                    LAMBDA i : \A j \in 1..(i - 1) : values[j] # values[i])
    IN  AsTuple([k \in 1..Len(firsts) |-> values[firsts[k]]])

DefaultTeamRoot == <<Tilde, <<"t","e","a","m">> >>

-----------------------------------------------------------------------------
(* queryEngineerTasks, wait by wait.  The call hands the event loop its turn  *)
(* at every await of a file system operation: fs.access (line 156, for lines  *)
(* 387, 179 and 194), fs.readdir (lines 170, 187 and 214) and fs.readFile     *)
(* (line 340).  An operation sees the file system as it is when it completes; *)
(* the code that follows runs to the next await without a break.  A frame     *)
(* holds the locals that live across a wait: pc names the operation awaited,  *)
(* entries and i the loop of line 173, teamEntries and j the loop of line     *)
(* 189, results the logs listed, k the loop of line 402, stack and files the  *)
(* walk of lines 206-223, jsonlFiles and f the loop of line 406.  goal names   *)
(* the function that was called, which is where the frame ends: "query" for   *)
(* queryEngineerTasks, "list" for listEngineerLogs, "walk" for walkJsonlFiles. *)

NoLocals ==
    [goal |-> "query", pc |-> "idle", entries |-> <<>>, i |-> 0, teamEntries |-> <<>>, j |-> 0,
     results |-> <<>>, k |-> 0, stack |-> <<>>, files |-> <<>>,
     jsonlFiles |-> <<>>, f |-> 0, scannedFiles |-> 0,
     allTasks |-> <<>>, outcome |-> NoResult]

\* line 379
teamRootOf(opts) ==
    expandHome(IF opts.teamRoot.t = "undefined" THEN DefaultTeamRoot ELSE opts.teamRoot.v)

\* the Dirent objects of readdir(..., { withFileTypes: true })
Dirents(entries) ==
    AsTuple([n \in 1..Len(entries) |-> [name |-> entries[n].name, kind |-> entries[n].kind]])

\* the call has ended: it returned a value or threw; allTasks is as it was then
Ended(st, outcome) ==
    [NoLocals EXCEPT !.goal = st.goal, !.pc = "done", !.allTasks = st.allTasks,
                     !.outcome = outcome]

\* lines 388-395
missingRoot(st, opts) ==
    Ended(st, Ok([teamRoot |-> teamRootOf(opts),
                  query |-> normalizeText(opts.prompt),
                  scannedEngineers |-> <<>>,
                  scannedFiles |-> 0,
                  extractedTasks |-> 0,
                  matches |-> <<>>]))

\* lines 412-438
returnEnvelope(st, opts, now) ==
    LET query == normalizeText(opts.prompt)
        scored == scoreAndRank(st.allTasks, ToLowerCase(query), tokenize(query), now,
                               clampLimit(opts.limit))
        teamed == SelectSeq(st.results, LAMBDA e : e.team.t = "string")
    IN  Ended(st, Ok([teamRoot |-> teamRootOf(opts),
                      query |-> query,
                      scannedTeams |->
                          Distinct(AsTuple([n \in 1..Len(teamed) |-> teamed[n].team.v])),
                      scannedEngineers |->
                          Distinct(AsTuple([n \in 1..Len(st.results) |-> st.results[n].engineer])),
                      scannedFiles |-> st.scannedFiles,
                      extractedTasks |-> Len(st.allTasks),
                      matches |-> AsTuple([n \in 1..Len(scored) |-> truncateText(scored[n])])]))

RECURSIVE nextEntry(_, _, _)
RECURSIVE nextTeamEntry(_, _, _)
RECURSIVE nextEngineerLog(_, _, _)
RECURSIVE nextFile(_, _, _)

\* line 402: the loop over engineerLogs goes on at engineerLogs[k]; the walk of
\* its logDir starts with the readdir of line 214
nextEngineerLog(st, opts, now) ==
    IF st.k > Len(st.results) THEN returnEnvelope(st, opts, now)
    ELSE [st EXCEPT !.pc = "readdirWalk",
                    !.stack = << st.results[st.k].logDir >>,
                    !.files = <<>>]

\* line 406: the loop over jsonlFiles goes on at jsonlFiles[f]
nextFile(st, opts, now) ==
    IF st.f > Len(st.jsonlFiles)
    THEN nextEngineerLog([st EXCEPT !.jsonlFiles = <<>>, !.f = 0, !.k = @ + 1], opts, now)
    ELSE [st EXCEPT !.pc = "readFile"]

\* line 173: the loop over entries goes on at entries[i]; after it
\* listEngineerLogs returns results (line 202) and line 399 follows
nextEntry(st, opts, now) ==
    IF st.i > Len(st.entries)
    THEN IF st.goal = "list" THEN Ended(st, Ok(st.results))
         ELSE nextEngineerLog([st EXCEPT !.entries = <<>>, !.i = 0, !.k = 1], opts, now)
    ELSE IF st.entries[st.i].kind # "dir"
    THEN nextEntry([st EXCEPT !.i = @ + 1], opts, now)
    ELSE [st EXCEPT !.pc = "accessDirect"]

\* line 189: the loop over teamEntries goes on at teamEntries[j]
nextTeamEntry(st, opts, now) ==
    IF st.j > Len(st.teamEntries)
    THEN nextEntry([st EXCEPT !.teamEntries = <<>>, !.j = 0, !.i = @ + 1], opts, now)
    ELSE IF \/ st.teamEntries[st.j].kind # "dir"
            \/ ~Selects(opts.engineers, st.teamEntries[st.j].name)
    THEN nextTeamEntry([st EXCEPT !.j = @ + 1], opts, now)
    ELSE [st EXCEPT !.pc = "accessTeamLog"]

\* lines 377-387: the call runs to its first wait, pathExists(teamRoot)
queryEngineerTasks == [NoLocals EXCEPT !.pc = "accessRoot"]

\* lines 163-170: the call runs to its first wait, readdir(teamRoot)
listEngineerLogs == [NoLocals EXCEPT !.goal = "list", !.pc = "readdirRoot"]

\* lines 205-214: the call runs to its first wait, readdir(rootDir)
walkJsonlFiles(rootDir) ==
    [NoLocals EXCEPT !.goal = "walk", !.pc = "readdirWalk", !.stack = << rootDir >>]

\* line 387: pathExists(teamRoot) has resolved
afterAccessRoot(fs, st, opts, now) ==
    IF ~pathExists(fs, teamRootOf(opts)) THEN missingRoot(st, opts)
    ELSE [st EXCEPT !.pc = "readdirRoot"]

\* line 170: readdir(teamRoot) has settled
afterReaddirRoot(fs, st, opts, now) ==
    LET entries == Readdir(fs, teamRootOf(opts))
    IN  IF entries.t = "error" THEN Ended(st, Thrown)
        ELSE nextEntry([st EXCEPT !.entries = Dirents(entries.v), !.i = 1], opts, now)

\* line 179: pathExists(directLogDir) has resolved
afterAccessDirect(fs, st, opts, now) ==
    LET name == st.entries[st.i].name
        directLogDir == teamRootOf(opts) \o <<name, LogName>>
    IN  IF pathExists(fs, directLogDir)
        THEN nextEntry([st EXCEPT
                 !.results = IF Selects(opts.engineers, name)
                             THEN Append(@, [team |-> Undefined, engineer |-> name,
                                             logDir |-> directLogDir])
                             ELSE @,
                 !.i = @ + 1], opts, now)
        ELSE IF ~Selects(opts.teams, name)
        THEN nextEntry([st EXCEPT !.i = @ + 1], opts, now)
        ELSE [st EXCEPT !.pc = "readdirTeam"]

\* line 187: readdir(entryPath) has settled
afterReaddirTeam(fs, st, opts, now) ==
    LET teamEntries == Readdir(fs, teamRootOf(opts) \o << st.entries[st.i].name >>)
    IN  IF teamEntries.t = "error" THEN Ended(st, Thrown)
        ELSE nextTeamEntry([st EXCEPT !.teamEntries = Dirents(teamEntries.v), !.j = 1],
                           opts, now)

\* line 194: pathExists(logDir) has resolved
afterAccessTeamLog(fs, st, opts, now) ==
    LET teamName == st.entries[st.i].name
        name == st.teamEntries[st.j].name
        logDir == teamRootOf(opts) \o <<teamName, name, LogName>>
    IN  nextTeamEntry([st EXCEPT
            !.results = IF pathExists(fs, logDir)
                        THEN Append(@, [team |-> JStr(teamName), engineer |-> name,
                                        logDir |-> logDir])
                        ELSE @,
            !.j = @ + 1], opts, now)

\* line 214: readdir(current) has settled; with the stack empty walkJsonlFiles
\* returns files and lines 404-406 follow
afterReaddirWalk(fs, st, opts, now) ==
    LET current == st.stack[Len(st.stack)]
        popped == SubSeq(st.stack, 1, Len(st.stack) - 1)
        entries == Readdir(fs, current)
    IN  IF entries.t = "error" THEN Ended(st, Thrown)
        ELSE LET subdirs == SelectSeq(entries.v, LAMBDA e : e.kind = "dir")
                 jsonl == SelectSeq(entries.v,
                            LAMBDA e : e.kind = "file" /\ EndsWith(e.name, DotJsonl))
                 stack == popped \o AsTuple([n \in 1..Len(subdirs) |->
                                                current \o << subdirs[n].name >>])
                 files == st.files \o AsTuple([n \in 1..Len(jsonl) |->
                                                  current \o << jsonl[n].name >>])
             IN  IF stack # <<>> THEN [st EXCEPT !.stack = stack, !.files = files]
                 ELSE IF st.goal = "walk" THEN Ended(st, Ok(files))
                 ELSE nextFile([st EXCEPT !.stack = <<>>, !.files = <<>>,
                                          !.jsonlFiles = files, !.f = 1,
                                          !.scannedFiles = @ + Len(files)], opts, now)

\* line 340: readFile(filePath) has settled; lines 341-374 and 408 follow
afterReadFile(fs, st, opts, now) ==
    LET filePath == st.jsonlFiles[st.f]
        raw == ReadLines(fs, filePath)
    IN  IF raw.t = "error" THEN Ended(st, Thrown)
        ELSE nextFile([st EXCEPT
                 !.allTasks = @ \o ExtractLoop(filePath, st.results[st.k].engineer, raw.v, 0),
                 !.f = @ + 1], opts, now)

\* the operation the call awaits settles on the file system fs
resume(fs, st, opts, now) ==
    CASE st.pc = "accessRoot"    -> afterAccessRoot(fs, st, opts, now)
      [] st.pc = "readdirRoot"   -> afterReaddirRoot(fs, st, opts, now)
      [] st.pc = "accessDirect"  -> afterAccessDirect(fs, st, opts, now)
      [] st.pc = "readdirTeam"   -> afterReaddirTeam(fs, st, opts, now)
      [] st.pc = "accessTeamLog" -> afterAccessTeamLog(fs, st, opts, now)
      [] st.pc = "readdirWalk"   -> afterReaddirWalk(fs, st, opts, now)
      [] st.pc = "readFile"      -> afterReadFile(fs, st, opts, now)

-----------------------------------------------------------------------------
(* The inputs of the query model *)

Text(line) == [blank |-> FALSE, json |-> line]
Pad(n) == AsTuple([i \in 1..n |-> "x"])

UserType == JStr(<<"u","s","e","r">>)

\* {"session_id":"s1","ts":<10 days ago, in seconds>,"text":"fix the login bug"}
CodexLine ==
    Text(JObj([session_id |-> JStr(<<"s","1">>), ts |-> JNum(FALSE, 19990),
               text |-> JStr(<<"f","i","x"," ","t","h","e"," ","l","o","g","i","n"," ","b","u","g">>)]))
\* {"display":"Deploy  LOGIN page","timestamp":<100 days ago, in ms>,"project":"web"}
ClaudeLine ==
    Text(JObj([display |-> JStr(<<"D","e","p","l","o","y"," "," ","L","O","G","I","N"," ","p","a","g","e">>), timestamp |-> JNum(TRUE, 19900),
               project |-> JStr(<<"w","e","b">>)]))
\* {"display":"login later","timestamp":<200 days ago, in ms>,"sessionId":"c7"}
ClaudeOlderLine ==
    Text(JObj([display |-> JStr(<<"l","o","g","i","n"," ","l","a","t","e","r">>), timestamp |-> JNum(TRUE, 19800),
               sessionId |-> JStr(<<"c","7">>)]))
\* {"type":"user","message":{"content":"xxx...x login"}}: "login" starts at
\* character 600 of the text
LongTraceLine ==
    Text(JObj([type |-> UserType,
               message |-> JObj([content |-> JStr(Pad(598) \o <<" ","l","o","g","i","n">>)])]))
\* {"type":"user","message":"/help"}
SlashLine == Text(JObj([type |-> UserType, message |-> JStr(<<"/","h","e","l","p">>)]))
\* not-json
InvalidLine == Text(SyntaxError)

QueryLines == {CodexLine, ClaudeLine, ClaudeOlderLine, LongTraceLine, SlashLine, InvalidLine}

FilesUpTo(lines, n) == UNION {[1..k -> lines] : k \in 0..n}
SideFiles == {<<>>, <<CodexLine>>, <<LongTraceLine>>}

Alice   == <<"a","l","i","c","e">>
Bob     == <<"b","o","b">>
Carol   == <<"c","a","r","o","l">>
Backend == <<"b","a","c","k","e","n","d">>
AJsonl  == <<"a",".","j","s","o","n","l">>
BJsonl  == <<"b",".","j","s","o","n","l">>
Notes   == <<"n","o","t","e","s",".","t","x","t">>
Srv     == <<"s","r","v">>
Teams   == <<"t","e","a","m","s">>

\* /home/team/alice/log/a.jsonl, /home/team/bob/log/.codex/b.jsonl, /home/team/notes.txt
FlatLogs(logA, fileB) ==
    Dir(<<>>, TRUE, <<
      Dir(HomeDir[1], TRUE, <<
        Dir(DefaultTeamRoot[2], TRUE, <<
          Dir(Alice, TRUE, << Dir(LogName, TRUE, logA) >>),
          File(Notes, TRUE, <<>>),
          Dir(Bob, TRUE, << Dir(LogName, TRUE, <<
              Dir(DotCodex, TRUE, << File(BJsonl, TRUE, fileB) >>) >>) >>) >>) >>) >>)
FlatTree(fileA, fileB) == FlatLogs(<< File(AJsonl, TRUE, fileA) >>, fileB)

\* /srv/teams/backend/bob/log/b.jsonl, /srv/teams/backend/carol,
\* /srv/teams/alice/log/{notes.txt,a.jsonl}
NestedTree(fileA, fileB) ==
    Dir(<<>>, TRUE, <<
      Dir(Srv, TRUE, <<
        Dir(Teams, TRUE, <<
          Dir(Backend, TRUE, <<
            Dir(Bob, TRUE, << Dir(LogName, TRUE, << File(BJsonl, TRUE, fileA) >>) >>),
            Dir(Carol, TRUE, <<>>) >>),
          Dir(Alice, TRUE, << Dir(LogName, TRUE, <<
              File(Notes, TRUE, <<>>), File(AJsonl, TRUE, fileB) >>) >>) >>) >>) >>)

\* /home exists and /home/team does not
MissingRootTree == Dir(<<>>, TRUE, << Dir(HomeDir[1], TRUE, <<>>) >>)

\* [tree, teamRoot]: a file system and the teamRoot option that goes with it
\* the file systems that stay as they are during the call
StillScenarios ==
    {[tree |-> FlatTree(fileA, fileB), teamRoot |-> Undefined, write |-> NoWrite] :
        fileA \in FilesUpTo(QueryLines, MaxLines), fileB \in SideFiles}
    \cup {[tree |-> NestedTree(fileA, fileB), teamRoot |-> JStr(<<Srv, Teams>>), write |-> NoWrite] :
        fileA \in FilesUpTo(QueryLines, MaxLines), fileB \in SideFiles}
    \cup {[tree |-> MissingRootTree, teamRoot |-> Undefined, write |-> NoWrite]}

\* the file systems another callback writes to during the call: both files
\* rewritten, a.jsonl removed, the team root made, a team directory emptied
ChangingScenarios ==
    {[tree |-> FlatTree(<<CodexLine>>, <<CodexLine>>), teamRoot |-> Undefined,
      write |-> Write(fs)] :
        fs \in {FlatTree(<<ClaudeLine>>, <<LongTraceLine>>),
                FlatLogs(<<>>, <<CodexLine>>)}}
    \cup {[tree |-> MissingRootTree, teamRoot |-> Undefined,
           write |-> Write(FlatTree(<<CodexLine>>, <<>>))]}
    \cup {[tree |-> NestedTree(<<CodexLine>>, <<CodexLine>>), teamRoot |-> JStr(<<Srv, Teams>>),
           write |-> Write(Dir(<<>>, TRUE, << Dir(Srv, TRUE, <<
                              Dir(Teams, TRUE, << Dir(Backend, TRUE, <<>>) >>) >>) >>))]}

\* [tree, teamRoot, write]: a file system, the teamRoot option that goes with
\* it, and the write another callback has in hand
Scenarios == StillScenarios \cup ChangingScenarios

Prompts == {<<>>, <<" ","L","o","g","i","n"," "," ","b","u","g">>, <<"x">>, <<"d","e","p","l","o","y">>}
Limit(n) == [t |-> "number", n |-> n]
Limits == {Undefined, Limit(0), Limit(2), Limit(250)}
\* [teams, engineers]
Scopes == {[teams |-> Undefined, engineers |-> Undefined],
           [teams |-> JArr(<<Backend>>), engineers |-> Undefined],
           [teams |-> JArr(<<>>), engineers |-> JArr(<<Alice>>)]}
\* [prompt, limit, teams, engineers]: every prompt with every limit over all
\* logs, and the empty prompt with the default limit over each scope
Requests ==
    {[prompt |-> prompt, limit |-> limit, teams |-> Undefined, engineers |-> Undefined] :
        prompt \in Prompts, limit \in Limits}
    \cup {[prompt |-> <<>>, limit |-> Undefined, teams |-> scope.teams,
           engineers |-> scope.engineers] : scope \in Scopes}
\* Date.now(), in days
Clock == {20000}

-----------------------------------------------------------------------------
(* The query model: one call of queryEngineerTasks *)

\* the frame of the call: its locals, with allTasks and the outcome so far
Frame(tasks, outcome) ==
    [goal |-> locals.goal, pc |-> locals.pc, entries |-> locals.entries, i |-> locals.i,
     teamEntries |-> locals.teamEntries, j |-> locals.j,
     results |-> locals.results, k |-> locals.k, stack |-> locals.stack,
     files |-> locals.files, jsonlFiles |-> locals.jsonlFiles, f |-> locals.f,
     scannedFiles |-> locals.scannedFiles, allTasks |-> tasks, outcome |-> outcome]
LocalsOf(st) ==
    [goal |-> st.goal, pc |-> st.pc, entries |-> st.entries, i |-> st.i,
     teamEntries |-> st.teamEntries, j |-> st.j,
     results |-> st.results, k |-> st.k, stack |-> st.stack,
     files |-> st.files, jsonlFiles |-> st.jsonlFiles, f |-> st.f,
     scannedFiles |-> st.scannedFiles]

IdleCall    == locals = LocalsOf(NoLocals) /\ pendingWrite = NoWrite
IdleRequest == options = Undefined /\ nowMs = 0 /\ allTasks = <<>> /\ result = NoResult
IdleQuery   == IdleRequest /\ IdleCall
IdleExtract == hits = NoResult
IdleDedupe  == cacheRows = <<>> /\ cliOptions = Undefined /\ selectedRows = NoResult
IdleCoord   ==
    /\ syncRunning = FALSE /\ syncPending = FALSE
    /\ runsStarted = 0 /\ runsFinished = 0
    /\ lastOutcome = "none" /\ enqueueLog = <<>> /\ enqueueThrew = FALSE
IdlePull    ==
    /\ pullInput = Undefined /\ pullEnv = Undefined /\ pendingEnv = NoChange
    /\ pullPhase = "idle" /\ pullApiKey = Undefined /\ pullResult = NoResult
    /\ ioLog = <<>> /\ cursor = 0 /\ workers = <<>> /\ dumpResults = <<>> /\ outFiles = {}
IdleSanitize == fileName = <<>> /\ sanitized = NoResult
IdleWalk    == walked = NoResult
IdleScore   == scoreItem = Undefined /\ scorePrompt = <<>> /\ scoreValue = NoResult
IdleList    == listed = NoResult
IdleGates   == pendingAnimationGates = <<>> /\ dashboardCalls = <<>>

InitQuery ==
    /\ \E scenario \in Scenarios, request \in Requests :
          /\ tree = scenario.tree
          /\ pendingWrite = scenario.write
          /\ options = [prompt |-> request.prompt, teamRoot |-> scenario.teamRoot,
                        teams |-> request.teams, engineers |-> request.engineers,
                        limit |-> request.limit]
    /\ nowMs \in Clock
    /\ allTasks = queryEngineerTasks.allTasks
    /\ result = queryEngineerTasks.outcome
    /\ locals = LocalsOf(queryEngineerTasks)
    /\ IdleExtract
    /\ IdleDedupe
    /\ IdleCoord
    /\ IdlePull
    /\ IdleSanitize
    /\ IdleWalk
    /\ IdleScore
    /\ IdleList
    /\ IdleGates

\* the operation the call awaits settles, and the call runs to its next wait
\* or to its end
Settles(pc) ==
    /\ locals.pc = pc
    /\ \E st \in {resume(tree, Frame(allTasks, NoResult), options, nowMs)} :
          /\ locals' = LocalsOf(st)
          /\ allTasks' = st.allTasks
          /\ result' = IF st.goal = "query" THEN st.outcome ELSE result
          /\ listed' = IF st.goal = "list" THEN st.outcome ELSE listed
          /\ walked' = IF st.goal = "walk" THEN st.outcome ELSE walked
    /\ UNCHANGED <<options, tree, nowMs, pendingWrite, extractVars, dedupeVars, coordVars,
                   pullVars, sanitizeVars, scoreVars, gateVars>>

AccessTeamRoot  == Settles("accessRoot")
ReaddirTeamRoot == Settles("readdirRoot")
AccessDirectLog == Settles("accessDirect")
ReaddirTeam     == Settles("readdirTeam")
AccessTeamLog   == Settles("accessTeamLog")
ReaddirLogDir   == Settles("readdirWalk")
ReadFile        == Settles("readFile")

\* another callback of the process, or another process, writes to the file
\* system while the call waits
FileSystemChanges ==
    /\ locals.pc \notin {"idle", "done"}
    /\ pendingWrite.t = "pending"
    /\ tree' = pendingWrite.tree
    /\ pendingWrite' = Written
    /\ UNCHANGED <<options, nowMs, allTasks, result, locals, extractVars, dedupeVars,
                   coordVars, pullVars, sanitizeVars, walkVars, scoreVars, listVars, gateVars>>

\* the file system stayed as it was during the call
FileSystemStill == pendingWrite # Written

QueryEngineerTasks ==
    \/ AccessTeamRoot
    \/ ReaddirTeamRoot
    \/ AccessDirectLog
    \/ ReaddirTeam
    \/ AccessTeamLog
    \/ ReaddirLogDir
    \/ ReadFile

NextQuery == QueryEngineerTasks \/ FileSystemChanges

vars == <<queryVars, extractVars, dedupeVars, coordVars, pullVars, sanitizeVars, walkVars,
         scoreVars, listVars, gateVars>>

SpecQuery == InitQuery /\ [][NextQuery]_vars

-----------------------------------------------------------------------------
(* Claims about queryEngineerTasks *)

Returned == result.t = "ok"
Matches  == result.v.matches

\* a text contains, case-insensitively, the full query or one of its tokens
ContainsQuery(text, query) ==
    LET textLower == ToLowerCase(text)
        tokens == tokenize(query)
    IN  \/ Includes(textLower, ToLowerCase(query))
        \/ \E k \in 1..Len(tokens) : Includes(textLower, tokens[k])

\* the extracted record a match was made from
RecordOf(match) ==
    CHOOSE k \in 1..Len(allTasks) :
        allTasks[k].file = match.file /\ allTasks[k].line = match.line

\* C1 as stated: for a non-empty query, the text of every returned match (cut
\* to 600 characters) contains the full query or one of its tokens.
C1_ReturnedTextContainsQuery ==
    (Returned /\ result.v.query # <<>>) =>
        \A k \in 1..Len(Matches) : ContainsQuery(Matches[k].text, result.v.query)

\* C1, amended: for a non-empty query, every returned match is made from one
\* extracted record, its text is the first 600 characters of that record's text,
\* and the record's whole text contains the full query or one of its tokens.
C1_RecordTextContainsQuery ==
    (Returned /\ result.v.query # <<>>) =>
        \A k \in 1..Len(Matches) :
            /\ \E r \in 1..Len(allTasks) :
                  allTasks[r].file = Matches[k].file /\ allTasks[r].line = Matches[k].line
            /\ Matches[k].text = SliceTo(allTasks[RecordOf(Matches[k])].text, TextLimit)
            /\ ContainsQuery(allTasks[RecordOf(Matches[k])].text, result.v.query)

\* a non-empty query returned a cut match next to an uncut one
C1_Witness ==
    /\ Returned
    /\ result.v.query # <<>>
    /\ \E i, j \in 1..Len(Matches) :
          /\ Len(allTasks[RecordOf(Matches[i])].text) > TextLimit
          /\ Len(Matches[j].text) < TextLimit

\* C2: the matches are in descending order of score, and matches of equal score
\* in descending order of time stamp.
C2_MatchesRanked ==
    Returned =>
        \A i, j \in 1..Len(Matches) :
            i < j => /\ Matches[i].score >= Matches[j].score
                     /\ Matches[i].score = Matches[j].score
                            => Matches[i].timestampMs >= Matches[j].timestampMs

\* three matches, two of them of equal score and different time stamps
C2_Witness ==
    /\ Returned
    /\ Len(Matches) = 3
    /\ \E i \in 1..2 :
          /\ Matches[i].score = Matches[i + 1].score
          /\ Matches[i].timestampMs > Matches[i + 1].timestampMs
    /\ \E i \in 1..2 : Matches[i].score > Matches[i + 1].score

\* the requested limit, 20 when omitted, clamped to [1, 200]
RequestedLimit ==
    LET asked == IF options.limit.t = "number" THEN options.limit.n ELSE 20
    IN  IF asked < 1 THEN 1 ELSE IF asked > 200 THEN 200 ELSE asked

\* the extracted records that pass the filter of the query
EligibleRecords ==
    {r \in 1..Len(allTasks) :
        result.v.query = <<>> \/ ContainsQuery(allTasks[r].text, result.v.query)}

IsReturned(r) ==
    \E k \in 1..Len(Matches) :
        Matches[k].file = allTasks[r].file /\ Matches[k].line = allTasks[r].line

RecordScore(r) ==
    computeScore(allTasks[r], ToLowerCase(result.v.query), tokenize(result.v.query), nowMs)

\* C3: the call returns min(L, number of eligible records) matches, L the
\* requested limit clamped to [1, 200], and no eligible record that was left out
\* ranks strictly before a returned one.
C3_TopLimitReturned ==
    Returned =>
        /\ Len(Matches) = Min(RequestedLimit, Cardinality(EligibleRecords))
        /\ \A r \in EligibleRecords : \A k \in 1..Len(Matches) :
              ~IsReturned(r) =>
                  ~ \/ RecordScore(r) > Matches[k].score
                    \/ /\ RecordScore(r) = Matches[k].score
                       /\ allTasks[r].timestampMs > Matches[k].timestampMs

\* a limit below 1 was asked for and more records were eligible than returned
C3_Witness ==
    /\ Returned
    /\ options.limit.t = "number" /\ options.limit.n < 1
    /\ Len(Matches) = 1
    /\ Cardinality(EligibleRecords) = 3

EnvelopeFields ==
    {"teamRoot", "query", "scannedTeams", "scannedEngineers", "scannedFiles",
     "extractedTasks", "matches"}

ResolvedRoot ==
    expandHome(IF options.teamRoot.t = "undefined" THEN DefaultTeamRoot
               ELSE options.teamRoot.v)

\* C9 as stated: every call returns, without error, an envelope with all seven
\* fields; for a missing root the three lists are empty and both counts are 0.
C9_EnvelopeComplete ==
    result.t # "pending" =>
        /\ Returned
        /\ DOMAIN result.v = EnvelopeFields
        /\ ~pathExists(tree, ResolvedRoot) =>
              /\ result.v.scannedTeams = <<>>
              /\ result.v.scannedEngineers = <<>>
              /\ result.v.matches = <<>>
              /\ result.v.scannedFiles = 0
              /\ result.v.extractedTasks = 0

-----------------------------------------------------------------------------
(* The extraction model: one call of extractTasksFromJsonl *)

\* {"type":"user","sessionId":"u1","timestamp":"2024-10-01",
\*  "message":{"content":[{"text":"deploy the"},"payments\tservice",{"kind":"image"}]}}
TraceLine ==
    Text(JObj([type |-> UserType, sessionId |-> JStr(<<"u","1">>), timestamp |-> JStr(IsoDate),
               message |-> JObj([content |-> JArr(<<
                    JObj([text |-> JStr(<<"d","e","p","l","o","y"," ","t","h","e">>)]),
                    JStr(<<"p","a","y","m","e","n","t","s","\t","s","e","r","v","i","c","e">>),
                    JObj([kind |-> JStr(<<"i","m","a","g","e">>)]) >>)])]))
\* {"display":"ok","timestamp":1}: a text of fewer than 4 characters
ShortLine == Text(JObj([display |-> JStr(<<"o","k">>), timestamp |-> JNum(FALSE, 1)]))
\* {"note":"fix the login bug"}: an object of no known shape
ShapelessLine == Text(JObj([note |-> JStr(<<"f","i","x"," ","t","h","e"," ","l","o","g","i","n"," ","b","u","g">>)]))
\* 42, null, "fix the login bug", ["fix the login bug"]
NumberLine == Text(JNum(FALSE, 42))
NullLine   == Text(JNull)
StringLine == Text(JStr(<<"f","i","x"," ","t","h","e"," ","l","o","g","i","n"," ","b","u","g">>))
ArrayLine  == Text(JArr(<<JStr(<<"f","i","x"," ","t","h","e"," ","l","o","g","i","n"," ","b","u","g">>)>>))

\* {"text":"  fix \t the\n bug ","ts":19990}: whitespace around and in runs
PaddedLine ==
    Text(JObj([ts |-> JNum(FALSE, 19990),
               text |-> JStr(<<" "," ","f","i","x"," ","\t"," ","t","h","e","\n"," ","b","u","g"," ">>)]))
\* {"display":" /help\n","timestamp":1}: a slash-command between whitespace
PaddedSlashLine ==
    Text(JObj([display |-> JStr(<<" ","/","h","e","l","p","\n">>), timestamp |-> JNum(FALSE, 1)]))
\* {"type":"user","message":"a \t\n b"}: 3 characters once collapsed
SparseLine == Text(JObj([type |-> UserType, message |-> JStr(<<"a"," ","\t","\n"," ","b">>)]))

ExtractLines ==
    {CodexLine, TraceLine, SlashLine, ShortLine, ShapelessLine, InvalidLine, BlankLine,
     NumberLine, NullLine, StringLine, ArrayLine, PaddedLine, PaddedSlashLine, SparseLine}

JsonlPath == <<HomeDir[1], AJsonl>>
JsonlTree(lines) ==
    Dir(<<>>, TRUE, << Dir(HomeDir[1], TRUE, << File(AJsonl, TRUE, lines) >>) >>)

InitExtract ==
    /\ \E lines \in FilesUpTo(ExtractLines, MaxFileLines) : tree = JsonlTree(lines)
    /\ hits = NoResult
    /\ IdleQuery
    /\ IdleDedupe
    /\ IdleCoord
    /\ IdlePull
    /\ IdleSanitize
    /\ IdleWalk
    /\ IdleScore
    /\ IdleList
    /\ IdleGates

ExtractTasksFromJsonl ==
    /\ hits.t = "pending"
    /\ hits' = extractTasksFromJsonl(tree, JsonlPath, Alice)
    /\ UNCHANGED <<queryVars, dedupeVars, coordVars, pullVars, sanitizeVars, walkVars, scoreVars, listVars, gateVars>>

NextExtract == ExtractTasksFromJsonl

SpecExtract == InitExtract /\ [][NextExtract]_vars

(* Claims about extractTasksFromJsonl *)

FileLines == Lookup(tree, JsonlPath).node.lines

ParsesToObject(line) == ~line.blank /\ line.json.t = "object"

\* the actionable records of line n (1-based) of the file
ActionableRecords(lines, n) ==
    IF ParsesToObject(lines[n])
    THEN SelectSeq(extractTaskFromRecord(JsonlPath, n, Alice, lines[n].json),
                   LAMBDA item : looksLikeActionableTask(item.text))
    ELSE <<>>

\* the records returned for line n
HitsAt(found, n) == SelectSeq(found, LAMBDA item : item.line = n)

\* C8: the call does not throw; the records returned are, line by line and in
\* the order of the lines, the actionable records of the lines that parse to a
\* JSON object, each with the 1-based number of its line; and blanking a line
\* that is not a JSON object changes nothing of what is returned.
C8_BadLinesSkipped ==
    hits.t # "pending" =>
        /\ hits.t = "ok"
        /\ \A n \in 1..Len(FileLines) : HitsAt(hits.v, n) = ActionableRecords(FileLines, n)
        /\ \A k \in 1..Len(hits.v) : hits.v[k].line \in 1..Len(FileLines)
        /\ \A i, j \in 1..Len(hits.v) : i < j => hits.v[i].line < hits.v[j].line
        /\ \A n \in 1..Len(FileLines) :
              ~ParsesToObject(FileLines[n]) =>
                  extractTasksFromJsonl(JsonlTree([FileLines EXCEPT ![n] = BlankLine]),
                                        JsonlPath, Alice) = hits

\* a line that is not JSON stands between two lines that gave a record each
C8_Witness ==
    /\ hits.t = "ok"
    /\ Len(FileLines) = 3
    /\ ~FileLines[2].blank /\ FileLines[2].json.t = "SyntaxError"
    /\ Len(hits.v) = 2
    /\ hits.v[1].line = 1 /\ hits.v[2].line = 3

-----------------------------------------------------------------------------
(* pullFabioSessions: filter and dedup of the cache rows.  A SessionCacheRow is *)
(* [contextId, updatedAtUnix, source, host, engineerId, sessionId]; the strings *)
(* are character sequences.                                                     *)

All == <<"a","l","l">>

\* lines 264-269; engineerId and host are Undefined or a string
passesFilter(row, opts) ==
    IF opts.engineerId.t = "string" /\ opts.engineerId.v # <<>>
       /\ row.engineerId # opts.engineerId.v THEN FALSE
    ELSE IF opts.host.t = "string" /\ opts.host.v # <<>> /\ row.host # opts.host.v THEN FALSE
    ELSE IF opts.source # All /\ row.source # opts.source THEN FALSE
    ELSE TRUE

\* line 273: `${row.source}:${row.host}:${row.engineerId}:${row.sessionId}`
sessionKey(row) ==
    row.source \o <<":">> \o row.host \o <<":">> \o row.engineerId \o <<":">> \o row.sessionId

\* the loop body, never replacing the row a key already has
dedupeStep_KeepsFirst(bySession, row) ==
    IF \E i \in 1..Len(bySession) : sessionKey(bySession[i]) = sessionKey(row)
    THEN bySession
    ELSE Append(bySession, row)

\* lines 273-277: one iteration of the loop; the Map is the sequence of its
\* values in insertion order, and setting a key it has keeps the key's place
dedupeStep(bySession, row) ==
    IF \E i \in 1..Len(bySession) : sessionKey(bySession[i]) = sessionKey(row)
    THEN LET at == CHOOSE i \in 1..Len(bySession) :
                        sessionKey(bySession[i]) = sessionKey(row)
         IN  IF row.updatedAtUnix > bySession[at].updatedAtUnix
             THEN [bySession EXCEPT ![at] = row]
             ELSE bySession
    ELSE Append(bySession, row)

RECURSIVE DedupeLoop(_, _)
DedupeLoop(bySession, filtered) ==
    IF filtered = <<>> THEN bySession
    ELSE DedupeLoop(dedupeStep(bySession, filtered[1]), Tail(filtered))

\* line 281: b.updatedAtUnix - a.updatedAtUnix
compareRows_Ascending(a, b) == a.updatedAtUnix - b.updatedAtUnix
compareRows(a, b) == b.updatedAtUnix - a.updatedAtUnix

InsertRow(sorted, x) ==
    LET behind == {i \in 1..Len(sorted) : compareRows(sorted[i], x) > 0}
        pos == IF behind = {} THEN Len(sorted) + 1
               ELSE CHOOSE i \in behind : \A j \in behind : i <= j
    IN  SubSeq(sorted, 1, pos - 1) \o <<x>> \o SubSeq(sorted, pos, Len(sorted))

RECURSIVE SortRows(_)
SortRows(rows) ==
    IF rows = <<>> THEN <<>>
    ELSE InsertRow(SortRows(SubSeq(rows, 1, Len(rows) - 1)), rows[Len(rows)])

filterAndDedupeRows(rows, opts) ==
    LET filtered == SelectSeq(rows, LAMBDA row : passesFilter(row, opts))
    IN  SliceTo(SortRows(DedupeLoop(<<>>, filtered)), opts.limit)

-----------------------------------------------------------------------------
(* The dedup model: one call of filterAndDedupeRows *)

Codex  == <<"c","o","d","e","x">>
Claude == <<"c","l","a","u","d","e">>
HostA  == <<"h","o","s","t","A">>
HostB  == <<"h","o","s","t","B">>
Eng1   == <<"e","n","g","1">>
Eng2   == <<"e","n","g","2">>
Sess1  == <<"s","e","s","s","1">>

CacheRow(contextId, source, host, engineerId, sessionId, updatedAtUnix) ==
    [contextId |-> contextId, source |-> source, host |-> host,
     engineerId |-> engineerId, sessionId |-> sessionId, updatedAtUnix |-> updatedAtUnix]

\* three rows of one session (two of them updated at the same time), the same
\* session id under another source, another engineer's session on another
\* host, and a session id that holds a colon
RowChoices ==
    {CacheRow(<<"c","1">>, Codex, HostA, Eng1, Sess1, 100),
     CacheRow(<<"c","2">>, Codex, HostA, Eng1, Sess1, 200),
     CacheRow(<<"c","3">>, Codex, HostA, Eng1, Sess1, 200),
     CacheRow(<<"c","4">>, Claude, HostA, Eng1, Sess1, 150),
     CacheRow(<<"c","5">>, Codex, HostB, Eng2, Sess1, 300),
     CacheRow(<<"c","6">>, Codex, HostA, Eng1, <<"x",":","y">>, 0)}

\* the rows come in any order: the cache orders them by a column whose stored
\* type need not be the integer the loader parses out of it
RowLists == UNION {[1..k -> RowChoices] : k \in 0..MaxRows}

FilterChoices ==
    [engineerId : {Undefined, JStr(Eng1)},
     host : {Undefined, JStr(HostA)},
     source : {All, Codex},
     limit : {1, 2, 120}]

InitDedupe ==
    /\ cacheRows \in RowLists
    /\ cliOptions \in FilterChoices
    /\ selectedRows = NoResult
    /\ tree = Undefined
    /\ IdleQuery
    /\ IdleExtract
    /\ IdleCoord
    /\ IdlePull
    /\ IdleSanitize
    /\ IdleWalk
    /\ IdleScore
    /\ IdleList
    /\ IdleGates

FilterAndDedupeRows ==
    /\ selectedRows.t = "pending"
    /\ selectedRows' = Ok(filterAndDedupeRows(cacheRows, cliOptions))
    /\ UNCHANGED <<queryVars, extractVars, cacheRows, cliOptions, coordVars, pullVars, sanitizeVars, walkVars, scoreVars, listVars, gateVars>>

NextDedupe == FilterAndDedupeRows

SpecDedupe == InitDedupe /\ [][NextDedupe]_vars

(* Claims about filterAndDedupeRows *)

SameSession(a, b) ==
    /\ a.source = b.source
    /\ a.host = b.host
    /\ a.engineerId = b.engineerId
    /\ a.sessionId = b.sessionId

\* the row matches the engineer, host and source filters of the call
MatchesFilter(row) ==
    /\ cliOptions.engineerId.t = "string" => row.engineerId = cliOptions.engineerId.v
    /\ cliOptions.host.t = "string" => row.host = cliOptions.host.v
    /\ cliOptions.source # All => row.source = cliOptions.source

\* the input positions of the matching rows of the session of `row`
SessionRows(row) ==
    {i \in 1..Len(cacheRows) : MatchesFilter(cacheRows[i]) /\ SameSession(cacheRows[i], row)}

\* C4: no two output rows are of the same (source, host, engineerId, sessionId);
\* an output row is updated at the latest update time of the matching input rows
\* of its session; and of the rows that share that time it is the first in the
\* input order, so that exactly one of them survives.
C4_DedupeKeepsNewest ==
    selectedRows.t = "ok" =>
        LET out == selectedRows.v
        IN  /\ \A i, j \in 1..Len(out) : i # j => ~SameSession(out[i], out[j])
            /\ \A k \in 1..Len(out) :
                  /\ SessionRows(out[k]) # {}
                  /\ \A i \in SessionRows(out[k]) :
                        cacheRows[i].updatedAtUnix <= out[k].updatedAtUnix
                  /\ LET newest == {i \in SessionRows(out[k]) :
                                        cacheRows[i].updatedAtUnix = out[k].updatedAtUnix}
                     IN  /\ newest # {}
                         /\ out[k] = cacheRows[CHOOSE i \in newest : \A j \in newest : i <= j]

\* an older row of a session came first and two rows share its latest time
C4_Witness ==
    /\ selectedRows.t = "ok"
    /\ \E k \in 1..Len(selectedRows.v) : \E a, b, c \in SessionRows(selectedRows.v[k]) :
          /\ a < b /\ b < c
          /\ cacheRows[a].updatedAtUnix < cacheRows[b].updatedAtUnix
          /\ cacheRows[b].updatedAtUnix = cacheRows[c].updatedAtUnix
          /\ cacheRows[b].contextId # cacheRows[c].contextId
          /\ selectedRows.v[k] = cacheRows[b]

-----------------------------------------------------------------------------
(* The sync coordinator.  Its code is not among the sources; it is modelled    *)
(* from its contract: enqueue starts a run when none is running and otherwise  *)
(* marks the pending flag; when a run ends, a marked flag is cleared and one   *)
(* more run starts; a failed run is logged and ends like a successful one.     *)
(* An operator gives [running, pending, start]: the two flags after the step   *)
(* and whether the step starts a run.                                          *)

\* enqueue, starting a run whatever the running flag says
enqueueSync_AlwaysStarts(running, pending) ==
    [running |-> TRUE, pending |-> pending, start |-> TRUE]

enqueueSync(running, pending) ==
    IF running
    THEN [running |-> TRUE, pending |-> TRUE, start |-> FALSE]
    ELSE [running |-> TRUE, pending |-> pending, start |-> TRUE]

\* the end of a run, leaving the pending flag set
onRunComplete_KeepsPending(running, pending) ==
    IF pending
    THEN [running |-> TRUE, pending |-> TRUE, start |-> TRUE]
    ELSE [running |-> FALSE, pending |-> FALSE, start |-> FALSE]

\* the end of a run, forgetting the pending flag
onRunComplete_DropsPending(running, pending) ==
    [running |-> FALSE, pending |-> FALSE, start |-> FALSE]

onRunComplete(running, pending) ==
    IF pending
    THEN [running |-> TRUE, pending |-> FALSE, start |-> TRUE]
    ELSE [running |-> FALSE, pending |-> FALSE, start |-> FALSE]

\* a failure nothing catches: it skips the completion step, so the flags stay
\* as they were, and it surfaces to the caller that triggered the run
onRunFailed_SkipsCompletion(running, pending) ==
    [running |-> running, pending |-> pending, start |-> FALSE, surfaced |-> TRUE]

\* the failure is caught and logged, then the run ends as any other; surfaced
\* tells whether the failure reaches the caller that triggered the run
onRunFailed(running, pending) ==
    LET done == onRunComplete(running, pending)
    IN  [running |-> done.running, pending |-> done.pending, start |-> done.start,
         surfaced |-> FALSE]

InFlight == runsStarted - runsFinished

InitCoord ==
    /\ IdleCoord
    /\ tree = Undefined
    /\ IdleQuery
    /\ IdleExtract
    /\ IdleDedupe
    /\ IdlePull
    /\ IdleSanitize
    /\ IdleWalk
    /\ IdleScore
    /\ IdleList
    /\ IdleGates

Enqueue ==
    /\ Len(enqueueLog) < MaxEnqueues
    /\ LET step == enqueueSync(syncRunning, syncPending)
       IN  /\ syncRunning' = step.running
           /\ syncPending' = step.pending
           /\ runsStarted' = runsStarted + (IF step.start THEN 1 ELSE 0)
    /\ enqueueLog' = Append(enqueueLog, IF InFlight > 0 THEN runsStarted ELSE 0)
    /\ UNCHANGED <<runsFinished, lastOutcome, enqueueThrew>>
    /\ UNCHANGED <<tree, queryVars, extractVars, dedupeVars, pullVars, sanitizeVars, walkVars, scoreVars, listVars, gateVars>>

RunSucceeds ==
    /\ InFlight > 0
    /\ LET step == onRunComplete(syncRunning, syncPending)
       IN  /\ syncRunning' = step.running
           /\ syncPending' = step.pending
           /\ runsStarted' = runsStarted + (IF step.start THEN 1 ELSE 0)
    /\ runsFinished' = runsFinished + 1
    /\ lastOutcome' = "ok"
    /\ UNCHANGED <<enqueueLog, enqueueThrew>>
    /\ UNCHANGED <<tree, queryVars, extractVars, dedupeVars, pullVars, sanitizeVars, walkVars, scoreVars, listVars, gateVars>>

RunFails ==
    /\ InFlight > 0
    /\ LET step == onRunFailed(syncRunning, syncPending)
       IN  /\ syncRunning' = step.running
           /\ syncPending' = step.pending
           /\ runsStarted' = runsStarted + (IF step.start THEN 1 ELSE 0)
           /\ enqueueThrew' = (enqueueThrew \/ step.surfaced)
    /\ runsFinished' = runsFinished + 1
    /\ lastOutcome' = "failed"
    /\ UNCHANGED enqueueLog
    /\ UNCHANGED <<tree, queryVars, extractVars, dedupeVars, pullVars, sanitizeVars, walkVars, scoreVars, listVars, gateVars>>

NextCoord == Enqueue \/ RunSucceeds \/ RunFails

SpecCoord == InitCoord /\ [][NextCoord]_vars

(* Claims about the sync coordinator *)

\* C5: at most one sync run is in flight at any time.
C5_OneRunInFlight == InFlight <= 1

\* a call arrived while a run was in flight, and a run is in flight
C5_Witness ==
    /\ InFlight = 1
    /\ syncPending
    /\ runsFinished >= 1
    /\ \E k \in 1..Len(enqueueLog) : enqueueLog[k] > 0

\* the first call found no run in flight, and each of the N >= 1 other calls
\* made so far arrived while the run it started was in flight
CallsDuringFirstRun ==
    /\ Len(enqueueLog) >= 2
    /\ enqueueLog[1] = 0
    /\ \A k \in 2..Len(enqueueLog) : enqueueLog[k] = 1

\* C6: when N >= 1 calls arrive during the first run and none later, one more
\* run follows the first: never more than 2 runs start, the second starts when
\* the first ends, and both have run once the coordinator is at rest.
C6_CallsCoalesce ==
    CallsDuringFirstRun =>
        /\ runsStarted <= 2
        /\ runsFinished >= 1 => runsStarted = 2
        /\ ~syncRunning => runsStarted = 2 /\ runsFinished = 2

\* five calls arrived during the first run and the coordinator is at rest
C6_Witness ==
    /\ CallsDuringFirstRun
    /\ Len(enqueueLog) = 6
    /\ ~syncRunning
    /\ runsFinished = 2

\* C7: no enqueue call throws; the step that ends a run in failure starts the
\* debt run if the pending flag is set and clears the running flag if not; and
\* a call made when no run is running, also after a failure, starts a run.
C7_FailureIsContained ==
    /\ [](~enqueueThrew)
    /\ [][(runsFinished' = runsFinished + 1 /\ lastOutcome' = "failed") =>
            IF syncPending
            THEN /\ syncRunning' /\ ~syncPending'
                 /\ runsStarted' = runsStarted + 1
                 /\ runsStarted' - runsFinished' = 1
            ELSE /\ ~syncRunning' /\ ~syncPending'
                 /\ runsStarted' = runsFinished']_vars
    /\ [][(Len(enqueueLog') = Len(enqueueLog) + 1 /\ InFlight = 0) =>
            /\ syncRunning'
            /\ runsStarted' = runsStarted + 1]_vars

\* a debt run and a run asked for later both followed a failed run
C7_Witness ==
    /\ lastOutcome = "failed"
    /\ runsFinished >= 2
    /\ InFlight = 1
    /\ \E k \in 2..Len(enqueueLog) : enqueueLog[k] = 0
    /\ \E k \in 2..Len(enqueueLog) : enqueueLog[k] > 0

-----------------------------------------------------------------------------
(* pullFabioSessions: options, credentials and the daemon cache.  An optional  *)
(* string is Undefined or JStr(s), an optional number Undefined or Limit(n).   *)

DEFAULT_OUT_DIR == "teams/demo/fabio/log"
RawDir          == "teams/demo/fabio/log/_raw"
ConfigToml      == "~/.ultracontext/config.toml"
DefaultPullLimit == 120
DumpConcurrency  == 6
PreviewRows      == 12

Failure(message) == [t |-> "error", message |-> message]

\* a string that JavaScript takes for true
Truthy(s) == s.t = "string" /\ s.v # <<>>
\* s?.trim()
TrimOptional(s) == IF s.t = "string" THEN JStr(Trim(s.v)) ELSE Undefined

\* lines 77-88; env is process.env.ULTRACONTEXT_API_KEY
buildDefaultOptions(env) ==
    [outDir |-> DEFAULT_OUT_DIR, engineerId |-> Undefined, host |-> Undefined,
     source |-> All, limit |-> DefaultPullLimit, apiKey |-> TrimOptional(env),
     skipRaw |-> FALSE, dryRun |-> FALSE]

\* the source filter, taken from the input whatever it is
sourceOf_KeepsInput(input, defaults) ==
    IF input.source.t = "string" THEN input.source.v ELSE defaults.source

\* lines 92-95
sourceOf(input, defaults) ==
    IF input.source.t = "string" /\ input.source.v \in {Codex, Claude, All}
    THEN input.source.v
    ELSE defaults.source

\* a || b, taking b whenever it is given
OrElse_PrefersSecond(a, b) == IF Truthy(b) THEN b ELSE a

\* a || b
OrElse(a, b) == IF Truthy(a) THEN a ELSE b

\* lines 90-112; the input always carries skipRaw and dryRun
normalizeOptions(input, env) ==
    LET defaults == buildDefaultOptions(env)
        source == sourceOf(input, defaults)
        limit  == IF input.limit.t = "number" THEN Max(1, input.limit.n) ELSE defaults.limit
    IN  [outDir |-> defaults.outDir, engineerId |-> input.engineerId, host |-> input.host,
         source |-> source, limit |-> limit,
         apiKey |-> OrElse(TrimOptional(input.apiKey), defaults.apiKey),
         skipRaw |-> input.skipRaw, dryRun |-> input.dryRun]

\* lines 172-180; configToml is Undefined when the file cannot be read and
\* otherwise the text its api_key line holds between the quotes
readApiKeyFromConfigToml(configToml) ==
    IF configToml.t = "string" THEN Trim(configToml.v) ELSE <<>>

Ctx         == <<"c","t","x">>
SessionWord == <<"s","e","s","s","i","o","n">>
OpenClaw    == <<"o","p","e","n","c","l","a","w">>
UnknownSource == <<"u","n","k","n","o","w","n">>

RECURSIVE JoinWith(_, _)
JoinWith(parts, sep) ==
    IF parts = <<>> THEN <<>>
    ELSE IF Len(parts) = 1 THEN parts[1]
    ELSE parts[1] \o sep \o JoinWith(Tail(parts), sep)

\* lines 212-235; parts is cacheKey.split(":")
parseSessionCacheKey(parts) ==
    IF Len(parts) < 6 THEN JNull
    ELSE IF parts[1] # Ctx \/ parts[2] # SessionWord THEN JNull
    ELSE LET sourceRaw == ToLowerCase(Trim(parts[3]))
             source    == IF sourceRaw \in {Codex, Claude, OpenClaw}
                          THEN sourceRaw
                          ELSE UnknownSource
             sessionId == JoinWith(SubSeq(parts, 6, Len(parts)), <<":">>)
         IN  IF sessionId = <<>> THEN JNull
             ELSE [t |-> "object", source |-> source, host |-> parts[4],
                   engineerId |-> parts[5], sessionId |-> sessionId]

DigitSeq == <<"0","1","2","3","4","5","6","7","8","9">>
DigitValue(c) == (CHOOSE i \in 1..10 : DigitSeq[i] = c) - 1

RECURSIVE DigitRun(_, _)
DigitRun(s, acc) ==
    IF s = <<>> \/ s[1] \notin Digits THEN acc
    ELSE DigitRun(Tail(s), 10 * acc + DigitValue(s[1]))

\* Number.parseInt(s, 10)
ParseInt(s) ==
    LET body     == Trim(s)
        signed   == body # <<>> /\ body[1] \in {"-", "+"}
        unsigned == IF signed THEN Tail(body) ELSE body
    IN  IF unsigned = <<>> \/ unsigned[1] \notin Digits
        THEN [isNaN |-> TRUE, n |-> 0]
        ELSE [isNaN |-> FALSE,
              n |-> IF body[1] = "-" THEN 0 - DigitRun(unsigned, 0) ELSE DigitRun(unsigned, 0)]

\* a line of sqlite3's output, split at the separator: cacheKey is split at ":"
\* (a single empty part for the empty key), contextId is "" when missing
DbLine(cacheKey, contextId, updatedAtRaw) ==
    [cacheKey |-> cacheKey, contextId |-> contextId, updatedAtRaw |-> updatedAtRaw]

\* lines 249-257: the rows pushed for one line
RowsOfLine(line) ==
    IF line.cacheKey = << <<>> >> \/ line.contextId = <<>> THEN <<>>
    ELSE LET parsed == parseSessionCacheKey(line.cacheKey)
             number == ParseInt(IF line.updatedAtRaw.t = "string"
                                THEN line.updatedAtRaw.v
                                ELSE <<"0">>)
         IN  IF parsed.t = "null" THEN <<>>
             ELSE <<CacheRow(line.contextId, parsed.source, parsed.host, parsed.engineerId,
                             parsed.sessionId, IF number.isNaN THEN 0 ELSE number.n)>>

RECURSIVE LoadLoop(_)
LoadLoop(lines) ==
    IF lines = <<>> THEN <<>>
    ELSE RowsOfLine(lines[1]) \o LoadLoop(Tail(lines))

\* lines 237-261; db is what runSqliteQuery resolves to, or Thrown
loadSessionCacheRows(db) ==
    IF db.t = "error" THEN Thrown ELSE Ok(LoadLoop(db.v))

\* line 286
IsFileNameChar(c) == c \in Letters \cup Digits \cup {".", "_", "-"}
sanitizeFileName_PerCharacter(value) ==
    AsTuple([i \in 1..Len(value) |-> IF IsFileNameChar(value[i]) THEN value[i] ELSE "_"])
sanitizeFileName(value) ==
    LET heads == SelectSeq(Indices(value),
                           LAMBDA i : \/ IsFileNameChar(value[i])
                                      \/ i = 1
                                      \/ IsFileNameChar(value[i - 1]))
    IN  AsTuple([k \in 1..Len(heads) |->
                    IF IsFileNameChar(value[heads[k]]) THEN value[heads[k]] ELSE "_"])

\* lines 453-454 and 459; a file path is [dir, name]
OutFile(row) ==
    [dir |-> DEFAULT_OUT_DIR,
     name |-> sanitizeFileName(row.source \o <<"-">> \o row.sessionId) \o <<".","j","s","o","n","l">>]
RawFile(row) ==
    [dir |-> RawDir,
     name |-> sanitizeFileName(row.source \o <<"-">> \o row.sessionId) \o <<".","j","s","o","n">>]
IndexPath == [dir |-> DEFAULT_OUT_DIR, name |-> <<"i","n","d","e","x",".","j","s","o","n">>]

\* the check for a missing key, switched off
missingApiKey_Never(apiKey) == FALSE

\* line 495: !apiKey
missingApiKey(apiKey) == ~Truthy(apiKey)

\* the check for an empty selection, switched off
nothingSelected_Never(rows) == FALSE

\* line 503: selectedRows.length === 0
nothingSelected(rows) == Len(rows) = 0

-----------------------------------------------------------------------------
(* pullFabioSessions: the run.  The call moves at the completion of what it  *)
(* awaits: the read of config.toml, the query of the daemon cache, the two    *)
(* mkdir calls, and then each worker of mapWithConcurrency at the completion  *)
(* of its fetch or write.  An operation is logged when it starts and reads    *)
(* the environment as it is when it completes; between two completions        *)
(* another process may rewrite the configuration file and the cache.          *)

DbPath == "~/.ultracontext/daemon.db"

IoOp(op, arg) == [op |-> op, arg |-> arg]
\* line 428: fetchContext(options.baseUrl, apiKey, row.contextId)
FetchOp(row, apiKey) == IoOp("fetch", [contextId |-> row.contextId, apiKey |-> apiKey])

\* line 494: options.apiKey || configApiKey
apiKeyOf(opts, configApiKey) == OrElse(opts.apiKey, JStr(configApiKey))

\* the user messages the content service holds for a context (lines 432-451
\* count them)
RemoteUserMessages(contextId) == IF contextId = <<"c","1">> THEN 2 ELSE 1

\* lines 476-486
DumpResultOf(row, opts) ==
    [t |-> "object", source |-> row.source, host |-> row.host, engineerId |-> row.engineerId,
     sessionId |-> row.sessionId, contextId |-> row.contextId,
     updatedAtUnix |-> row.updatedAtUnix,
     userMessages |-> RemoteUserMessages(row.contextId),
     file |-> OutFile(row),
     rawFile |-> IF opts.skipRaw THEN Undefined ELSE RawFile(row)]

\* fs.writeFile: the file at the path holds the content
WriteFile(written, path, content) ==
    {f \in written : f.path # path} \cup {[path |-> path, content |-> content]}

Summary(opts, totalSessions, totalUserMessages, dryRun) ==
    [outDir |-> opts.outDir, totalSessions |-> totalSessions,
     totalUserMessages |-> totalUserMessages, dryRun |-> dryRun]

\* one worker per item, all started at once
StartWorkers_OnePerItem(n) ==
    AsTuple([w \in 1..n |-> [state |-> "fetching", index |-> w - 1]])

\* lines 404-416: the workers as they stand when mapWithConcurrency first
\* awaits; each has taken an index, and calls the worker if it is an item's
StartWorkers(n) ==
    AsTuple([w \in 1..Max(1, DumpConcurrency) |->
                [state |-> IF w - 1 >= n THEN "returned" ELSE "fetching", index |-> w - 1]])

\* the result of an item, stored at the first free place of out
storeResult_InCompletionOrder(out, index, value) ==
    [out EXCEPT ![CHOOSE k \in 1..Len(out) :
                    /\ out[k].t = "undefined"
                    /\ \A j \in 1..(k - 1) : out[j].t # "undefined"] = value]

\* line 412: out[index] = await worker(items[index])
storeResult(out, index, value) == [out EXCEPT ![index + 1] = value]

\* the preview of a dry run, with every row
previewOf_All(rows) == rows

\* line 512: selectedRows.slice(0, 12)
previewOf(rows) == SliceTo(rows, PreviewRows)

PullOthers == <<queryVars, extractVars, coordVars, sanitizeVars, walkVars, scoreVars,
                listVars, gateVars>>

\* lines 492-493: the options are normalized, with process.env as it is now,
\* and the read of config.toml starts
StartPull ==
    /\ pullPhase = "start"
    /\ cliOptions' = normalizeOptions(pullInput, pullEnv.apiKey)
    /\ ioLog' = <<IoOp("readFile", ConfigToml)>>
    /\ pullPhase' = "readConfig"
    /\ UNCHANGED <<pullInput, pullEnv, pendingEnv, pullApiKey, pullResult, cursor, workers,
                   dumpResults, outFiles, cacheRows, selectedRows>>
    /\ UNCHANGED PullOthers

\* lines 174-179 and 493-501: the read of config.toml settled; the key is
\* chosen, and without a key the call throws, else the query of the cache starts
ReadConfigSettles ==
    /\ pullPhase = "readConfig"
    /\ \E key \in {apiKeyOf(cliOptions, readApiKeyFromConfigToml(pullEnv.configToml))} :
          /\ pullApiKey' = key
          /\ IF missingApiKey(key)
             THEN /\ pullResult' = Failure("Missing API key.")
                  /\ pullPhase' = "done"
                  /\ ioLog' = ioLog
             ELSE /\ pullResult' = pullResult
                  /\ pullPhase' = "query"
                  /\ ioLog' = Append(ioLog, IoOp("sqlite3", DbPath))
    /\ UNCHANGED <<pullInput, pullEnv, pendingEnv, cursor, workers, dumpResults, outFiles,
                   dedupeVars>>
    /\ UNCHANGED PullOthers

\* lines 512-518: the rows a dry run prints
Previews(picked) ==
    AsTuple([k \in 1..Len(previewOf(picked)) |-> IoOp("preview", previewOf(picked)[k].contextId)])

\* lines 184-195, 237-261 and 501-529: the query of the cache settled; the rows
\* are selected, and the call throws on a failed query or an empty selection,
\* returns the summary of a dry run, or starts the mkdir of the out directory
QuerySettles ==
    /\ pullPhase = "query"
    /\ \E loaded \in {loadSessionCacheRows(pullEnv.db)} :
          IF loaded.t = "error"
          THEN /\ pullResult' = Failure("sqlite3 exited")
               /\ pullPhase' = "done"
               /\ UNCHANGED <<cacheRows, selectedRows, ioLog>>
          ELSE \E picked \in {filterAndDedupeRows(loaded.v, cliOptions)} :
                  /\ cacheRows' = loaded.v
                  /\ selectedRows' = Ok(picked)
                  /\ IF nothingSelected(picked)
                     THEN /\ pullResult' =
                                Failure("No matching session contexts found in daemon cache.")
                          /\ pullPhase' = "done"
                          /\ ioLog' = ioLog
                     ELSE IF cliOptions.dryRun
                     THEN /\ pullResult' = Ok(Summary(cliOptions, Len(picked), 0, TRUE))
                          /\ pullPhase' = "done"
                          /\ ioLog' = ioLog \o Previews(picked)
                     ELSE /\ pullResult' = pullResult
                          /\ pullPhase' = "mkdirOut"
                          /\ ioLog' = Append(ioLog, IoOp("mkdir", DEFAULT_OUT_DIR))
    /\ UNCHANGED <<pullInput, pullEnv, pendingEnv, pullApiKey, cursor, workers, dumpResults,
                   outFiles, cliOptions>>
    /\ UNCHANGED PullOthers

\* lines 534-536 and 404-417: mapWithConcurrency starts its workers, and each
\* worker that took the index of a row starts the fetch of the row
StartDumps ==
    LET n        == Len(selectedRows.v)
        started  == StartWorkers(n)
        fetching == SelectSeq(started, LAMBDA worker : worker.state = "fetching")
    IN  /\ workers' = started
        /\ cursor' = Len(started)
        /\ dumpResults' = AsTuple([k \in 1..n |-> Undefined])
        /\ ioLog' = ioLog \o AsTuple([k \in 1..Len(fetching) |->
                                FetchOp(selectedRows.v[fetching[k].index + 1], pullApiKey)])
        /\ pullPhase' = "dumping"

\* lines 529-536: the out directory is there; the mkdir of the raw directory
\* starts, or without raw files the dumps
MkdirOutResolves ==
    /\ pullPhase = "mkdirOut"
    /\ IF cliOptions.skipRaw
       THEN StartDumps
       ELSE /\ ioLog' = Append(ioLog, IoOp("mkdir", RawDir))
            /\ pullPhase' = "mkdirRaw"
            /\ UNCHANGED <<cursor, workers, dumpResults>>
    /\ UNCHANGED <<pullInput, pullEnv, pendingEnv, pullApiKey, pullResult, outFiles, dedupeVars>>
    /\ UNCHANGED PullOthers

\* lines 531-536: the raw directory is there; the dumps start
MkdirRawResolves ==
    /\ pullPhase = "mkdirRaw"
    /\ StartDumps
    /\ UNCHANGED <<pullInput, pullEnv, pendingEnv, pullApiKey, pullResult, outFiles, dedupeVars>>
    /\ UNCHANGED PullOthers

\* lines 529 and 531: a mkdir failed (a file stands where the directory should
\* be), the call rejects
MkdirRejects ==
    /\ pullPhase \in {"mkdirOut", "mkdirRaw"}
    /\ pullResult' = Failure("mkdir")
    /\ pullPhase' = "done"
    /\ UNCHANGED <<pullInput, pullEnv, pendingEnv, pullApiKey, ioLog, cursor, workers,
                   dumpResults, outFiles, dedupeVars>>
    /\ UNCHANGED PullOthers

\* another process rewrites the configuration file and the daemon cache while
\* the call is under way
EnvironmentChanges ==
    /\ pullPhase \notin {"idle", "start", "done"}
    /\ pendingEnv.t = "pending"
    /\ pullEnv' = pendingEnv.env
    /\ pendingEnv' = Changed
    /\ UNCHANGED <<pullInput, pullPhase, pullApiKey, pullResult, ioLog, cursor, workers,
                   dumpResults, outFiles, dedupeVars>>
    /\ UNCHANGED PullOthers

\* the configuration file and the cache are as they were when the call began
EnvironmentStill == pendingEnv # Changed

Workers == DOMAIN workers
RowOf(w) == selectedRows.v[workers[w].index + 1]
\* the call rejects at the first rejection it awaits
Settle(outcome) == IF pullResult.t = "pending" THEN outcome ELSE pullResult

\* line 428: the fetch resolved; lines 429-455 start the write of the out file
FetchResolves(w) ==
    /\ pullPhase = "dumping"
    /\ workers[w].state = "fetching"
    /\ workers' = [workers EXCEPT ![w].state = "writing"]
    /\ UNCHANGED <<pullInput, pullEnv, pendingEnv, pullApiKey, pullPhase, pullResult, ioLog, cursor, dumpResults,
                   outFiles>>
    /\ UNCHANGED <<tree, queryVars, extractVars, dedupeVars, coordVars, sanitizeVars, walkVars, scoreVars, listVars, gateVars>>

\* lines 391-394: the fetch failed, the worker rejects
FetchRejects(w) ==
    /\ pullPhase = "dumping"
    /\ workers[w].state = "fetching"
    /\ workers' = [workers EXCEPT ![w].state = "rejected"]
    /\ pullResult' = Settle(Failure("HTTP"))
    /\ UNCHANGED <<pullInput, pullEnv, pendingEnv, pullApiKey, pullPhase, ioLog, cursor, dumpResults, outFiles>>
    /\ UNCHANGED <<tree, queryVars, extractVars, dedupeVars, coordVars, sanitizeVars, walkVars, scoreVars, listVars, gateVars>>

\* lines 408-412 and 476-486: the worker's item is done; it stores the result
\* and takes the next index
ItemDone(w) ==
    LET row  == RowOf(w)
        more == cursor < Len(selectedRows.v)
    IN  /\ dumpResults' = storeResult(dumpResults, workers[w].index,
                                       DumpResultOf(row, cliOptions))
        /\ cursor' = cursor + 1
        /\ workers' = [workers EXCEPT ![w] =
                          [state |-> IF more THEN "fetching" ELSE "returned",
                           index |-> cursor]]
        /\ ioLog' = IF more
                    THEN Append(ioLog, FetchOp(selectedRows.v[cursor + 1], pullApiKey))
                    ELSE ioLog

\* line 455: the out file is written
WriteResolves(w) ==
    /\ pullPhase = "dumping"
    /\ workers[w].state = "writing"
    /\ outFiles' = WriteFile(outFiles, OutFile(RowOf(w)),
                             [contextId |-> RowOf(w).contextId,
                              userMessages |-> RemoteUserMessages(RowOf(w).contextId)])
    /\ IF cliOptions.skipRaw
       THEN ItemDone(w)
       ELSE /\ workers' = [workers EXCEPT ![w].state = "writingRaw"]
            /\ UNCHANGED <<ioLog, cursor, dumpResults>>
    /\ UNCHANGED <<pullInput, pullEnv, pendingEnv, pullApiKey, pullPhase, pullResult>>
    /\ UNCHANGED <<tree, queryVars, extractVars, dedupeVars, coordVars, sanitizeVars, walkVars, scoreVars, listVars, gateVars>>

\* line 473: the raw file is written
RawWriteResolves(w) ==
    /\ pullPhase = "dumping"
    /\ workers[w].state = "writingRaw"
    /\ outFiles' = WriteFile(outFiles, RawFile(RowOf(w)), [contextId |-> RowOf(w).contextId])
    /\ ItemDone(w)
    /\ UNCHANGED <<pullInput, pullEnv, pendingEnv, pullApiKey, pullPhase, pullResult>>
    /\ UNCHANGED <<tree, queryVars, extractVars, dedupeVars, coordVars, sanitizeVars, walkVars, scoreVars, listVars, gateVars>>

\* lines 455 and 473: a write failed, the worker rejects
WriteRejects(w) ==
    /\ pullPhase = "dumping"
    /\ workers[w].state \in {"writing", "writingRaw"}
    /\ workers' = [workers EXCEPT ![w].state = "rejected"]
    /\ pullResult' = Settle(Failure("write"))
    /\ UNCHANGED <<pullInput, pullEnv, pendingEnv, pullApiKey, pullPhase, ioLog, cursor, dumpResults, outFiles>>
    /\ UNCHANGED <<tree, queryVars, extractVars, dedupeVars, coordVars, sanitizeVars, walkVars, scoreVars, listVars, gateVars>>

RECURSIVE SumUserMessages(_)
SumUserMessages(results) ==
    IF results = <<>> THEN 0
    ELSE results[1].userMessages + SumUserMessages(Tail(results))

AllReturned == \A w \in Workers : workers[w].state = "returned"

\* lines 538-578: every worker returned; the index is written and the call
\* returns the summary
IndexWriteResolves ==
    /\ pullPhase = "dumping"
    /\ pullResult.t = "pending"
    /\ AllReturned
    /\ outFiles' = WriteFile(outFiles, IndexPath,
                             [totalSessions |-> Len(dumpResults),
                              totalUserMessages |-> SumUserMessages(dumpResults),
                              sessions |-> dumpResults])
    /\ pullResult' = Ok(Summary(cliOptions, Len(dumpResults),
                                SumUserMessages(dumpResults), FALSE))
    /\ pullPhase' = "done"
    /\ UNCHANGED <<pullInput, pullEnv, pendingEnv, pullApiKey, ioLog, cursor, workers, dumpResults>>
    /\ UNCHANGED <<tree, queryVars, extractVars, dedupeVars, coordVars, sanitizeVars, walkVars, scoreVars, listVars, gateVars>>

\* line 540: the write of the index failed
IndexWriteRejects ==
    /\ pullPhase = "dumping"
    /\ pullResult.t = "pending"
    /\ AllReturned
    /\ pullResult' = Failure("write")
    /\ pullPhase' = "done"
    /\ UNCHANGED <<pullInput, pullEnv, pendingEnv, pullApiKey, ioLog, cursor, workers, dumpResults, outFiles>>
    /\ UNCHANGED <<tree, queryVars, extractVars, dedupeVars, coordVars, sanitizeVars, walkVars, scoreVars, listVars, gateVars>>

NextPull ==
    \/ StartPull
    \/ ReadConfigSettles
    \/ QuerySettles
    \/ MkdirOutResolves
    \/ MkdirRawResolves
    \/ MkdirRejects
    \/ EnvironmentChanges
    \/ \E w \in Workers : FetchResolves(w)
    \/ \E w \in Workers : FetchRejects(w)
    \/ \E w \in Workers : WriteResolves(w)
    \/ \E w \in Workers : RawWriteResolves(w)
    \/ \E w \in Workers : WriteRejects(w)
    \/ IndexWriteResolves
    \/ IndexWriteRejects

-----------------------------------------------------------------------------
(* The pull model: one call of pullFabioSessions *)

CacheKey(source, host, engineerId, sessionParts) ==
    <<Ctx, SessionWord, source, host, engineerId>> \o sessionParts

LineA == DbLine(CacheKey(Codex, HostA, Eng1, <<Sess1>>), <<"c","1">>, JStr(<<"1","0","0">>))
\* the source is written in another case
LineB == DbLine(CacheKey(<<"C","l","a","u","d","e">>, HostA, Eng1, <<Sess1>>),
                <<"c","2">>, JStr(<<"1","5","0">>))
\* the session id holds a colon
LineC == DbLine(CacheKey(Codex, HostB, Eng2, << <<"a">>, <<"b">> >>),
                <<"c","3">>, JStr(<<"3","0","0">>))
\* the key has no session id
LineD == DbLine(CacheKey(Codex, HostA, Eng1, <<>>), <<"c","4">>, JStr(<<"4","0","0">>))
\* the session of LineA, updated later
LineE == DbLine(CacheKey(Codex, HostA, Eng1, <<Sess1>>), <<"c","5">>, JStr(<<"2","0","0">>))
\* the session id of LineA on another host, for another engineer
LineG == DbLine(CacheKey(Codex, HostB, Eng2, <<Sess1>>), <<"c","7">>, JStr(<<"2","5","0">>))
\* the line has no context id
LineF == DbLine(CacheKey(Codex, HostA, Eng1, <<Sess1>>), <<>>, Undefined)

\* what the query of the daemon cache gives, newest first, or its failure
Databases ==
    {Thrown,
     Ok(<<>>),
     Ok(<<LineD, LineF>>),
     Ok(<<LineB>>),
     Ok(<<LineE, LineA>>),
     Ok(<<LineC, LineE, LineB>>),
     Ok(<<LineG, LineE>>),
     Ok(<<LineD, LineC, LineE, LineB, LineA>>)}

PullInputs ==
    [engineerId : {Undefined, JStr(Eng1)},
     host   : {Undefined, JStr(HostB)},
     source : {Undefined, JStr(Codex), JStr(<<"g","e","m","i","n","i">>)},
     limit  : {Undefined, Limit(0)},
     apiKey : {Undefined, JStr(<<" ">>), JStr(<<" ","i"," ">>)},
     skipRaw : BOOLEAN,
     dryRun  : BOOLEAN]

PullEnvs ==
    [apiKey     : {Undefined, JStr(<<"e">>)},
     configToml : {Undefined, JStr(<<"f">>)},
     db         : Databases]

\* a cache of n sessions of one engineer, newest first
ManyLines(n) ==
    AsTuple([k \in 1..n |->
        DbLine(CacheKey(Codex, HostA, Eng1, << <<"s", LowerCase[k]>> >>),
               <<"d", LowerCase[k]>>,
               JStr(<<DigitSeq[((50 - k) \div 10) + 1], DigitSeq[((50 - k) % 10) + 1]>>))])

\* the calls over the large caches: no filter, the key of the environment, no
\* raw files; the largest cache is only previewed
LargeRuns ==
    {[input |-> [engineerId |-> Undefined, host |-> Undefined, source |-> Undefined,
                 limit |-> Undefined, apiKey |-> Undefined, skipRaw |-> TRUE,
                 dryRun |-> dryRun],
      env |-> [apiKey |-> JStr(<<"e">>), configToml |-> Undefined,
               db |-> Ok(ManyLines(n))]] :
        dryRun \in BOOLEAN, n \in {MaxBatch}}
    \cup {[input |-> [engineerId |-> Undefined, host |-> Undefined, source |-> Undefined,
                      limit |-> Undefined, apiKey |-> Undefined, skipRaw |-> TRUE,
                      dryRun |-> TRUE],
           env |-> [apiKey |-> JStr(<<"e">>), configToml |-> Undefined,
                    db |-> Ok(ManyLines(MaxPreview))]]}

\* the call with no option set
NoPullInput ==
    [engineerId |-> Undefined, host |-> Undefined, source |-> Undefined, limit |-> Undefined,
     apiKey |-> Undefined, skipRaw |-> FALSE, dryRun |-> FALSE]

\* the calls during which another process rewrites the environment: the
\* configuration file is removed and the cache replaced; a configuration file
\* is written; the cache is emptied
ChangingRuns ==
    {[input |-> NoPullInput,
      env  |-> [apiKey |-> Undefined, configToml |-> JStr(<<"f">>), db |-> Ok(<<LineE, LineA>>)],
      next |-> [apiKey |-> Undefined, configToml |-> Undefined, db |-> Ok(<<LineC>>)]],
     [input |-> NoPullInput,
      env  |-> [apiKey |-> Undefined, configToml |-> Undefined, db |-> Ok(<<LineE, LineA>>)],
      next |-> [apiKey |-> Undefined, configToml |-> JStr(<<"f">>), db |-> Ok(<<LineE, LineA>>)]],
     [input |-> NoPullInput,
      env  |-> [apiKey |-> JStr(<<"e">>), configToml |-> JStr(<<"f">>), db |-> Ok(<<LineB>>)],
      next |-> [apiKey |-> JStr(<<"e">>), configToml |-> JStr(<<"g">>), db |-> Ok(<<>>)]]}

InitPull ==
    /\ \/ pullInput \in PullInputs /\ pullEnv \in PullEnvs /\ pendingEnv = NoChange
       \/ \E run \in LargeRuns :
             pullInput = run.input /\ pullEnv = run.env /\ pendingEnv = NoChange
       \/ \E run \in ChangingRuns :
             pullInput = run.input /\ pullEnv = run.env /\ pendingEnv = Change(run.next)
    /\ pullPhase = "start"
    /\ pullApiKey = Undefined
    /\ pullResult = NoResult
    /\ ioLog = <<>> /\ cursor = 0 /\ workers = <<>> /\ dumpResults = <<>> /\ outFiles = {}
    /\ tree = Undefined
    /\ IdleQuery
    /\ IdleExtract
    /\ IdleDedupe
    /\ IdleCoord
    /\ IdleSanitize
    /\ IdleWalk
    /\ IdleScore
    /\ IdleList
    /\ IdleGates

SpecPull == InitPull /\ [][NextPull]_vars

(* Claims about pullFabioSessions *)

\* the fetches made so far
Fetches == SelectSeq(ioLog, LAMBDA io : io.op = "fetch")
\* the directories created so far
Mkdirs  == SelectSeq(ioLog, LAMBDA io : io.op = "mkdir")

\* the row passes the engineer, host and source filters of the call
PassesPullFilters(row) ==
    /\ Truthy(pullInput.engineerId) => row.engineerId = pullInput.engineerId.v
    /\ Truthy(pullInput.host) => row.host = pullInput.host.v
    /\ cliOptions.source # All => row.source = cliOptions.source

\* the cache was read and the filters leave none of its rows
NoRowPasses ==
    /\ selectedRows.t = "ok"
    /\ \A i \in 1..Len(cacheRows) : ~PassesPullFilters(cacheRows[i])

\* C10: when the engineer, host and source filters leave no cache row, the call
\* ends in failure, in normal and in dry-run mode, having made no fetch, created
\* no directory and written no file.
C10_EmptySelectionFails ==
    NoRowPasses =>
        /\ pullResult.t = "error"
        /\ Fetches = <<>>
        /\ Mkdirs = <<>>
        /\ outFiles = {}

\* a dry run whose filters rejected every row of a cache that has rows
C10_Witness ==
    /\ NoRowPasses
    /\ cacheRows # <<>>
    /\ pullInput.dryRun
    /\ pullResult.t = "error"

\* the operations logged so far that touch the cache, the content service or
\* the output directory
OpsOf(kinds) == SelectSeq(ioLog, LAMBDA io : io.op \in kinds)

\* the credential source holds a key: a string with a character that is not
\* white space
HoldsKey(s) == s.t = "string" /\ \E i \in 1..Len(s.v) : s.v[i] \notin WhiteSpace

NoApiKeyAnywhere ==
    /\ ~HoldsKey(pullInput.apiKey)
    /\ ~HoldsKey(pullEnv.apiKey)
    /\ ~HoldsKey(pullEnv.configToml)

\* the read of config.toml has settled
ConfigRead == pullPhase \notin {"idle", "start", "readConfig"}

\* C11: when neither the parameter, nor the environment variable, nor the
\* configuration file holds a key, and the file stays as it is during the call,
\* the call fails once config.toml is read, and at no moment has it queried the
\* cache, fetched a context, created a directory or written a file.
C11_NoKeyFailsFirst ==
    (NoApiKeyAnywhere /\ EnvironmentStill) =>
        /\ ConfigRead => pullResult.t = "error"
        /\ OpsOf({"sqlite3", "fetch", "mkdir"}) = <<>>
        /\ outFiles = {}

\* a keyless call, its parameter a blank string, over a cache whose rows the
\* filters accept, in normal mode
C11_Witness ==
    /\ pullPhase = "done"
    /\ NoApiKeyAnywhere
    /\ EnvironmentStill
    /\ ioLog = <<IoOp("readFile", ConfigToml)>>
    /\ pullInput.apiKey.t = "string"
    /\ ~pullInput.dryRun
    /\ pullInput.engineerId.t = "undefined" /\ pullInput.host.t = "undefined"
    /\ pullEnv.db.t = "ok" /\ Len(pullEnv.db.v) >= 3
    /\ pullResult.t = "error"

\* the source filter asked for is a string other than all, codex and claude
InvalidSource ==
    pullInput.source.t = "string" /\ pullInput.source.v \notin {All, Codex, Claude}

\* the row passes the engineer and host filters of the call
PassesEngineerAndHost(row) ==
    /\ Truthy(pullInput.engineerId) => row.engineerId = pullInput.engineerId.v
    /\ Truthy(pullInput.host) => row.host = pullInput.host.v

\* C12 as claimed: a call with an invalid source filter makes no fetch, and
\* ends in failure.
C12_InvalidSourceFails ==
    InvalidSource =>
        /\ OpsOf({"fetch"}) = <<>>
        /\ pullPhase = "done" => pullResult.t = "error"

\* C12, amended: a call with an invalid source filter is not rejected for it; it
\* runs with the filter `all`: up to the limit, the session of every cache row
\* that passes the engineer and host filters is selected, whatever its source.
C12_InvalidSourceRunsAsAll ==
    (InvalidSource /\ selectedRows.t = "ok") =>
        /\ cliOptions.source = All
        /\ \/ Len(selectedRows.v) = cliOptions.limit
           \/ \A i \in 1..Len(cacheRows) :
                 PassesEngineerAndHost(cacheRows[i]) =>
                    \E k \in 1..Len(selectedRows.v) :
                        /\ SameSession(selectedRows.v[k], cacheRows[i])
                        /\ selectedRows.v[k].updatedAtUnix >= cacheRows[i].updatedAtUnix

\* a run with an invalid source filter succeeded and dumped sessions of two
\* sources
C12_Witness ==
    /\ InvalidSource
    /\ pullResult.t = "ok"
    /\ ~pullInput.dryRun
    /\ \E j, k \in 1..Len(selectedRows.v) :
          /\ selectedRows.v[j].source = Codex
          /\ selectedRows.v[k].source = Claude
    /\ Len(OpsOf({"fetch"})) = Len(selectedRows.v)

\* the key of the first of the three sources that holds one
FirstKeyOf(first, second, third) ==
    IF HoldsKey(first) THEN Trim(first.v)
    ELSE IF HoldsKey(second) THEN Trim(second.v)
    ELSE Trim(third.v)

SomeKeyGiven == ~NoApiKeyAnywhere

\* C13 as claimed: every fetch of a run carries the key of the environment
\* variable if it is set, else the key passed as parameter, else the key of the
\* configuration file (a file that stays as it is during the run).
C13_EnvironmentKeyFirst ==
    (SomeKeyGiven /\ EnvironmentStill) =>
        \A k \in 1..Len(OpsOf({"fetch"})) :
            OpsOf({"fetch"})[k].arg.apiKey.v =
                FirstKeyOf(pullEnv.apiKey, pullInput.apiKey, pullEnv.configToml)

\* C13, amended: every fetch of a run carries the key passed as parameter if
\* one is passed, else the key of the environment variable, else the key of the
\* configuration file (a file that stays as it is during the run); a blank
\* parameter or variable counts as absent.
C13_ParameterKeyFirst ==
    (SomeKeyGiven /\ EnvironmentStill) =>
        \A k \in 1..Len(OpsOf({"fetch"})) :
            OpsOf({"fetch"})[k].arg.apiKey.v =
                FirstKeyOf(pullInput.apiKey, pullEnv.apiKey, pullEnv.configToml)

\* a fetch was made by a call given a key by all three sources
C13_Witness ==
    /\ EnvironmentStill
    /\ HoldsKey(pullInput.apiKey)
    /\ HoldsKey(pullEnv.apiKey)
    /\ HoldsKey(pullEnv.configToml)
    /\ OpsOf({"fetch"}) # <<>>

\* C14: a dry run that selects at least one row makes no fetch, creates no
\* directory and writes no file, previews the first 12 selected rows at most,
\* and returns the summary of a dry run: the number of selected rows as
\* totalSessions, 0 user messages, dryRun true.
C14_DryRunOnlyPreviews ==
    (pullInput.dryRun /\ selectedRows.t = "ok" /\ Len(selectedRows.v) >= 1) =>
        /\ OpsOf({"fetch", "mkdir"}) = <<>>
        /\ outFiles = {}
        /\ Len(OpsOf({"preview"})) = Min(12, Len(selectedRows.v))
        /\ \A k \in 1..Len(OpsOf({"preview"})) :
              OpsOf({"preview"})[k].arg = selectedRows.v[k].contextId
        /\ pullResult.t = "ok"
        /\ pullResult.v.totalSessions = Len(selectedRows.v)
        /\ pullResult.v.totalUserMessages = 0
        /\ pullResult.v.dryRun = TRUE

\* a dry run selected more than 12 rows
C14_Witness ==
    /\ pullInput.dryRun
    /\ selectedRows.t = "ok"
    /\ Len(selectedRows.v) > 12
    /\ pullResult.t = "ok"

\* the dumpSession calls made so far, those that returned and those that threw
DumpsStarted  == Len(OpsOf({"fetch"}))
DumpsReturned == Len(SelectSeq(dumpResults, LAMBDA r : r.t = "object"))
DumpsThrown   == Len(SelectSeq(workers, LAMBDA worker : worker.state = "rejected"))
DumpsInFlight == DumpsStarted - DumpsReturned - DumpsThrown

\* C15: at most 6 dumpSession calls are in flight at any moment of a run.
C15_SixDumpsAtMost == DumpsInFlight <= 6

\* six dumps are in flight, the seventh of them started after an earlier one
\* returned
C15_Witness ==
    /\ DumpsStarted = 7
    /\ DumpsReturned = 1
    /\ DumpsInFlight = 6

\* the run dumped its sessions and returned its summary
RunSucceeded == pullResult.t = "ok" /\ ~pullInput.dryRun
IndexFiles   == {f \in outFiles : f.path = IndexPath}

\* entry `session` of the index describes `row`
Describes(session, row) ==
    /\ session.t = "object"
    /\ session.contextId = row.contextId
    /\ session.source = row.source
    /\ session.host = row.host
    /\ session.engineerId = row.engineerId
    /\ session.sessionId = row.sessionId
    /\ session.updatedAtUnix = row.updatedAtUnix
    /\ session.file = OutFile(row)

\* C16: in a run that succeeds, every selected row is fetched exactly once, and
\* the index written holds one entry per selected row, entry i describing
\* selected row i, with totalSessions the number of selected rows.
C16_IndexFollowsSelection ==
    RunSucceeded =>
        /\ DumpsStarted = Len(selectedRows.v)
        /\ \A i \in 1..Len(selectedRows.v) :
              Cardinality({k \in 1..DumpsStarted :
                  OpsOf({"fetch"})[k].arg.contextId = selectedRows.v[i].contextId}) = 1
        /\ Cardinality(IndexFiles) = 1
        /\ \A f \in IndexFiles :
              /\ f.content.totalSessions = Len(selectedRows.v)
              /\ Len(f.content.sessions) = Len(selectedRows.v)
              /\ \A i \in 1..Len(selectedRows.v) :
                    Describes(f.content.sessions[i], selectedRows.v[i])
        /\ pullResult.v.totalSessions = Len(selectedRows.v)

\* a run over more rows than there are workers succeeded
C16_Witness ==
    /\ RunSucceeded
    /\ Len(selectedRows.v) > 6
    /\ IndexFiles # {}

\* the run has failed, and its first failure was that of a fetch
FailedByFetch == pullResult.t = "error" /\ pullResult.message = "HTTP"

\* C17: once the fetch of a session has failed the run, the run starts no
\* dumpSession for another row and writes no further output file.
C17_FailureCancelsBatch ==
    [][FailedByFetch =>
          /\ DumpsStarted' = DumpsStarted
          /\ outFiles' = outFiles]_vars


-----------------------------------------------------------------------------
(* sanitizeFileName on its own (pullFabioSessions.ts 285-287) *)

MaxNameLen == 4
\* characters of file names: allowed ones of every class, and others
NameChars == {"a", "Z", "7", ".", "_", "-", "/", " ", ":"}
FileNames == UNION {[1..n -> NameChars] : n \in 0..MaxNameLen}

InitSanitize ==
    /\ fileName \in FileNames
    /\ sanitized = NoResult
    /\ tree = Undefined
    /\ IdleQuery
    /\ IdleExtract
    /\ IdleDedupe
    /\ IdleCoord
    /\ IdlePull
    /\ IdleWalk
    /\ IdleScore
    /\ IdleList
    /\ IdleGates

\* the call sanitizeFileName(value)
Sanitize ==
    /\ sanitized = NoResult
    /\ sanitized' = Ok(sanitizeFileName(fileName))
    /\ UNCHANGED <<fileName, tree, queryVars, extractVars, dedupeVars, coordVars, pullVars, walkVars, scoreVars, listVars, gateVars>>

NextSanitize == Sanitize
SpecSanitize == InitSanitize /\ [][NextSanitize]_vars

InvalidAt(value) == {i \in 1..Len(value) : ~IsFileNameChar(value[i])}

\* C18 as stated: the result has the length of the input and differs from it
\* only at the positions of invalid characters, which hold "_".
C18_SameLength ==
    sanitized.t = "ok" =>
        /\ Len(sanitized.v) = Len(fileName)
        /\ \A i \in 1..Len(fileName) :
              sanitized.v[i] = IF i \in InvalidAt(fileName) THEN "_" ELSE fileName[i]

\* the input with every maximal run of invalid characters marked at its first
\* position only
RunHeads(value) == {i \in InvalidAt(value) : i = 1 \/ (i - 1) \notin InvalidAt(value)}
KeptPositions(value) == {i \in 1..Len(value) : i \notin InvalidAt(value) \/ i \in RunHeads(value)}
\* the position of the result that the kept position i of the input lands on
Lands(value, i) == Cardinality({j \in KeptPositions(value) : j <= i})

\* C18 (amended): sanitizeFileName replaces every maximal run of characters
\* outside [A-Za-z0-9._-] with one "_" and leaves every other character
\* unchanged and in place relative to the others: the result is as long as
\* the number of valid characters plus the number of invalid runs.
C18_RunsBecomeOneUnderscore ==
    sanitized.t = "ok" =>
        /\ Len(sanitized.v) = Cardinality(KeptPositions(fileName))
        /\ \A i \in KeptPositions(fileName) :
              sanitized.v[Lands(fileName, i)] =
                  IF i \in InvalidAt(fileName) THEN "_" ELSE fileName[i]
        /\ \A k \in 1..Len(sanitized.v) : IsFileNameChar(sanitized.v[k])

\* a name with two adjacent invalid characters between valid ones was sanitized
C18_Witness ==
    /\ sanitized.t = "ok"
    /\ \E i \in 1..(Len(fileName) - 1) : {i, i + 1} \subseteq InvalidAt(fileName)
    /\ \E i \in 1..Len(fileName) : i \notin InvalidAt(fileName)
    /\ Len(sanitized.v) < Len(fileName)

-----------------------------------------------------------------------------
(* Claims about the text of the records of extractTasksFromJsonl *)

\* no whitespace at either end, and no whitespace inside but single spaces
IsCollapsed(text) ==
    /\ \A i \in 1..Len(text) : text[i] \in WhiteSpace => text[i] = " "
    /\ \A i \in 1..(Len(text) - 1) : ~(text[i] = " " /\ text[i + 1] = " ")
    /\ Len(text) > 0 => (text[1] # " " /\ text[Len(text)] # " ")

\* "/" followed only by letters, digits, "_" or "-"
IsBareSlashCommand(text) ==
    /\ Len(text) >= 2
    /\ Head(text) = "/"
    /\ \A i \in 2..Len(text) : text[i] \in Letters \cup Digits \cup {"_", "-"}

\* C19: every record returned by extractTasksFromJsonl has a text that is
\* trimmed, holds no whitespace run other than a single space, has at least 4
\* characters and is not a bare slash-command.
C19_ReturnedTextIsNormalized ==
    hits.t = "ok" =>
        \A k \in 1..Len(hits.v) :
            /\ IsCollapsed(hits.v[k].text)
            /\ Len(hits.v[k].text) >= 4
            /\ ~IsBareSlashCommand(hits.v[k].text)

\* a file with the padded line, the padded slash-command and the sparse line
\* was read: only the padded line gave a record, with its text collapsed
C19_Witness ==
    /\ hits.t = "ok"
    /\ {PaddedLine, PaddedSlashLine, SparseLine} \subseteq {FileLines[n] : n \in 1..Len(FileLines)}
    /\ Len(hits.v) = 1
    /\ hits.v[1].text = <<"f","i","x"," ","t","h","e"," ","b","u","g">>

-----------------------------------------------------------------------------
(* walkJsonlFiles on its own (part_003 205-226), below one log directory *)

MaxDepth == 2
\* the name of the subdirectory at each depth below the log directory
SubName(d) == IF d % 2 = 0 THEN DotCodex ELSE Bob

\* the entries a directory may hold with d levels of subdirectories below it:
\* a.jsonl or not, then a subdirectory (readable or not) or none, then
\* notes.txt or not
RECURSIVE DirContents(_)
DirContents(d) ==
    LET jsonl == {<<>>, << File(AJsonl, TRUE, <<>>) >>}
        notes == {<<>>, << File(Notes, TRUE, <<>>) >>}
        subs  == IF d = 0 THEN {<<>>}
                 ELSE {<<>>} \cup
                      {<< Dir(SubName(d), readable, below) >> :
                          readable \in BOOLEAN, below \in DirContents(d - 1)}
    IN  {a \o s \o n : a \in jsonl, s \in subs, n \in notes}

WalkRoot == <<LogName>>
LogTrees == {Dir(<<>>, TRUE, << Dir(LogName, TRUE, entries) >>) : entries \in DirContents(MaxDepth)}

\* the write another callback has in hand: none, or the log directory emptied
WalkWrites == {NoWrite, Write(Dir(<<>>, TRUE, << Dir(LogName, TRUE, <<>>) >>))}

InitWalk ==
    /\ tree \in LogTrees
    /\ pendingWrite \in WalkWrites
    /\ walked = walkJsonlFiles(WalkRoot).outcome
    /\ locals = LocalsOf(walkJsonlFiles(WalkRoot))
    /\ IdleRequest
    /\ IdleExtract
    /\ IdleDedupe
    /\ IdleCoord
    /\ IdlePull
    /\ IdleSanitize
    /\ IdleScore
    /\ IdleList
    /\ IdleGates

\* the call walkJsonlFiles(logDir): one readdir after the other
Walk == ReaddirLogDir

NextWalk == Walk \/ FileSystemChanges
SpecWalk == InitWalk /\ [][NextWalk]_vars

\* the paths of the .jsonl files at or below the directory node at path at,
\* through readable directories only
RECURSIVE ReadableJsonl(_, _)
ReadableJsonl(node, at) ==
    IF ~node.readable THEN {}
    ELSE UNION {
        IF node.entries[i].kind = "dir"
        THEN ReadableJsonl(node.entries[i], at \o <<node.entries[i].name>>)
        ELSE IF EndsWith(node.entries[i].name, DotJsonl)
             THEN {at \o <<node.entries[i].name>>}
             ELSE {} : i \in 1..Len(node.entries)}

RECURSIVE HasUnreadableDir(_)
HasUnreadableDir(node) ==
    /\ node.kind = "dir"
    /\ \/ ~node.readable
       \/ \E i \in 1..Len(node.entries) : HasUnreadableDir(node.entries[i])

LogDirNode == Lookup(tree, WalkRoot).node

\* C20: when a subdirectory below the log directory cannot be read, the
\* enumeration still returns, with exactly the .jsonl files of the readable
\* directories.
C20_UnreadableSubdirSkipped ==
    (walked.t # "pending" /\ HasUnreadableDir(LogDirNode)) =>
        /\ walked.t = "ok"
        /\ {walked.v[k] : k \in 1..Len(walked.v)} = ReadableJsonl(LogDirNode, WalkRoot)

\* the enumeration of trees where every directory can be read
ReadableTreeEnumerated ==
    (walked.t # "pending" /\ FileSystemStill /\ ~HasUnreadableDir(LogDirNode)) =>
        /\ walked.t = "ok"
        /\ {walked.v[k] : k \in 1..Len(walked.v)} = ReadableJsonl(LogDirNode, WalkRoot)

-----------------------------------------------------------------------------
(* queryEngineerTasks over log files that cannot all be read *)

\* /home/team/alice/log/a.jsonl and /home/team/bob/log/b.jsonl, each readable or not
FaultyTree(fileA, readableA, fileB, readableB) ==
    Dir(<<>>, TRUE, <<
      Dir(HomeDir[1], TRUE, <<
        Dir(DefaultTeamRoot[2], TRUE, <<
          Dir(Alice, TRUE, << Dir(LogName, TRUE, << File(AJsonl, readableA, fileA) >>) >>),
          Dir(Bob, TRUE, << Dir(LogName, TRUE, << File(BJsonl, readableB, fileB) >>) >>) >>) >>) >>)

FaultyLines == {CodexLine, ClaudeOlderLine}
FaultyPrompts == {<<>>, <<"l","o","g","i","n">>}

\* the writes another callback has in hand: none, or, to one file system,
\* both files rewritten or b.jsonl made unreadable
FaultyWrites(fs) ==
    {NoWrite} \cup
    IF fs = FaultyTree(<<CodexLine>>, TRUE, <<CodexLine>>, TRUE)
    THEN {Write(FaultyTree(<<ClaudeOlderLine>>, TRUE, <<ClaudeOlderLine>>, TRUE)),
          Write(FaultyTree(<<CodexLine>>, TRUE, <<CodexLine>>, FALSE))}
    ELSE {}

InitFaulty ==
    /\ \E fileA, fileB \in FilesUpTo(FaultyLines, MaxLines), readableA, readableB \in BOOLEAN,
          prompt \in FaultyPrompts :
          /\ tree = FaultyTree(fileA, readableA, fileB, readableB)
          /\ pendingWrite \in FaultyWrites(tree)
          /\ options = [prompt |-> prompt, teamRoot |-> Undefined,
                        teams |-> Undefined, engineers |-> Undefined,
                        limit |-> Undefined]
    /\ nowMs \in Clock
    /\ allTasks = queryEngineerTasks.allTasks
    /\ result = queryEngineerTasks.outcome
    /\ locals = LocalsOf(queryEngineerTasks)
    /\ IdleExtract
    /\ IdleDedupe
    /\ IdleCoord
    /\ IdlePull
    /\ IdleSanitize
    /\ IdleWalk
    /\ IdleScore
    /\ IdleList
    /\ IdleGates

\* the trees are flat: no team directory is read
NextFaulty ==
    \/ AccessTeamRoot
    \/ ReaddirTeamRoot
    \/ AccessDirectLog
    \/ ReaddirLogDir
    \/ ReadFile
    \/ FileSystemChanges

SpecQueryFaulty == InitFaulty /\ [][NextFaulty]_vars

AlicePath == HomeDir \o <<DefaultTeamRoot[2], Alice, LogName, AJsonl>>
BobPath   == HomeDir \o <<DefaultTeamRoot[2], Bob, LogName, BJsonl>>

\* the records of a log file that can be read, none for one that cannot
RecordsIfReadable(filePath, engineer) ==
    LET found == extractTasksFromJsonl(tree, filePath, engineer)
    IN  IF found.t = "ok" THEN found.v ELSE <<>>

SomeFileUnreadable ==
    \E filePath \in {AlicePath, BobPath} : ~Lookup(tree, filePath).node.readable

\* C21: when one enumerated log file cannot be read, the query still returns
\* an envelope, made of the records of the other, readable files.
C21_UnreadableFileSkipped ==
    (result.t # "pending" /\ SomeFileUnreadable) =>
        /\ result.t = "ok"
        /\ allTasks = RecordsIfReadable(AlicePath, Alice) \o RecordsIfReadable(BobPath, Bob)
        /\ result.v.extractedTasks = Len(allTasks)

\* the query over trees where every file can be read
ReadableFilesQueried ==
    (result.t # "pending" /\ FileSystemStill /\ ~SomeFileUnreadable) =>
        /\ result.t = "ok"
        /\ allTasks = RecordsIfReadable(AlicePath, Alice) \o RecordsIfReadable(BobPath, Bob)
        /\ result.v.extractedTasks = Len(allTasks)

-----------------------------------------------------------------------------
(* computeScore on its own (part_003 120-152), called as at lines 380-415 *)

MaxQueryWords == 3
QueryWords == {<<"l","o","g","i","n">>, <<"b","u","g">>, <<"a">>, <<"F","i","x">>}
\* the words joined by single spaces
RECURSIVE JoinWords(_)
JoinWords(words) ==
    IF words = <<>> THEN <<>>
    ELSE IF Len(words) = 1 THEN words[1]
    ELSE words[1] \o <<" ">> \o JoinWords(Tail(words))
ScorePrompts == {JoinWords(words) : words \in UNION {[1..n -> QueryWords] : n \in 0..MaxQueryWords}}
ScoreTexts == {<<"f","i","x"," ","t","h","e"," ","l","o","g","i","n"," ","b","u","g">>,
               <<"L","o","g","i","n"," ","l","o","g","i","n">>,
               <<"d","e","p","l","o","y">>}
ScoreItems == {[text |-> text, source |-> source, timestampMs |-> stamp] :
                  text \in ScoreTexts, source \in {"codex", "unknown"}, stamp \in {0, 19990}}

InitScore ==
    /\ scoreItem \in ScoreItems
    /\ scorePrompt \in ScorePrompts
    /\ scoreValue = NoResult
    /\ nowMs \in Clock
    /\ tree = Undefined /\ options = Undefined /\ allTasks = <<>> /\ result = NoResult
    /\ IdleCall
    /\ IdleExtract
    /\ IdleDedupe
    /\ IdleCoord
    /\ IdlePull
    /\ IdleSanitize
    /\ IdleWalk
    /\ IdleList
    /\ IdleGates

\* computeScore(item, queryLower, queryTokens, nowMs) with the arguments
\* queryEngineerTasks makes of the prompt (lines 380-384, 415)
ComputeScore ==
    /\ scoreValue.t = "pending"
    /\ LET query == normalizeText(scorePrompt)
       IN  scoreValue' = Ok(computeScore(scoreItem, ToLowerCase(query), tokenize(query), nowMs))
    /\ UNCHANGED <<scoreItem, scorePrompt, options, tree, nowMs, allTasks, result,
                   locals, pendingWrite,
                   extractVars, dedupeVars, coordVars, pullVars, sanitizeVars, walkVars,
                   listVars, gateVars>>

NextScore == ComputeScore
SpecScore == InitScore /\ [][NextScore]_vars

ScoreQuery == ToLowerCase(normalizeText(scorePrompt))
ScoreTokens == tokenize(normalizeText(scorePrompt))
\* twice the part of the score that depends on the query: the score less what
\* source and recency give (an empty query scores 10 plus those)
QueryPart2 == scoreValue.v - (computeScore(scoreItem, <<>>, <<>>, nowMs) - 20)
TokensInText ==
    {token \in {ScoreTokens[k] : k \in 1..Len(ScoreTokens)} :
        Includes(ToLowerCase(scoreItem.text), token)}
OccurrencesInText ==
    {k \in 1..Len(ScoreTokens) : Includes(ToLowerCase(scoreItem.text), ScoreTokens[k])}
FullQueryBonus == IF Includes(ToLowerCase(scoreItem.text), ScoreQuery) THEN 80 ELSE 0

\* C22: for a non-empty query the query-dependent part of the score is 80 if
\* the lowercased text contains the full query, plus 10 for every member of the
\* set of query tokens found in the text: a repeated token counts once.
C22_TokenSetScored ==
    (scoreValue.t = "ok" /\ ScoreQuery # <<>>) =>
        QueryPart2 = 2 * (FullQueryBonus + 10 * Cardinality(TokensInText))

\* what the code computes: 10 for every occurrence of a token in the query
ScoreCountsOccurrences ==
    (scoreValue.t = "ok" /\ ScoreQuery # <<>>) =>
        QueryPart2 = 2 * (FullQueryBonus + 10 * Cardinality(OccurrencesInText))

-----------------------------------------------------------------------------
(* The records of one log file (part_003 336-375, 407), over lines of the     *)
(* Claude-history shape that carry fields of the other shapes                 *)

DisplayText == <<"s","h","i","p"," ","i","t">>
NoField == [k \in {} |-> Undefined]
Field(key, present, value) == IF present THEN key :> value ELSE NoField

\* {"display":"ship it","timestamp":...} with, or without, a string session_id,
\* a numeric or string ts, a string sessionId and a non-string text
ClaudeShaped(timestamp, sessionId, ts, text) ==
    Text(JObj(("display" :> JStr(DisplayText)) @@ ("timestamp" :> timestamp)
              @@ Field("session_id", sessionId, JStr(<<"s","1">>))
              @@ Field("ts", ts.t # "undefined", ts)
              @@ Field("text", text, JNum(FALSE, 7))))
ClaudeShapedLines ==
    {ClaudeShaped(timestamp, sessionId, ts, text) :
        timestamp \in {JNum(TRUE, 19900), JStr(IsoDate)},
        sessionId \in BOOLEAN,
        ts \in {Undefined, JNum(FALSE, 19990), JStr(IsoDate)},
        text \in BOOLEAN}
\* {"display":"ship it","timestamp":...,"text":"fix the login bug","ts":...}: of
\* the Codex-history shape, which is tried first
BothShapesLine ==
    Text(JObj([display |-> JStr(DisplayText), timestamp |-> JNum(TRUE, 19900),
               ts |-> JStr(IsoDate),
               text |-> JStr(<<"f","i","x"," ","t","h","e"," ","l","o","g","i","n"," ","b","u","g">>)]))
ScanLines == ClaudeShapedLines \cup {BothShapesLine, TraceLine}

\* /log/a.jsonl, /log/.codex/a.jsonl or /log/.claude/a.jsonl
ScanTree(segment, lines) ==
    Dir(<<>>, TRUE, <<
      Dir(LogName, TRUE,
          IF segment = <<>> THEN << File(AJsonl, TRUE, lines) >>
          ELSE << Dir(segment, TRUE, << File(AJsonl, TRUE, lines) >>) >>) >>)

\* the path of a.jsonl, as walkJsonlFiles gives it
ScanPath ==
    IF pathExists(tree, <<LogName, DotCodex>>) THEN <<LogName, DotCodex, AJsonl>>
    ELSE IF pathExists(tree, <<LogName, DotClaude>>) THEN <<LogName, DotClaude, AJsonl>>
    ELSE <<LogName, AJsonl>>

InitScan ==
    /\ \E segment \in {<<>>, DotCodex, DotClaude}, lines \in FilesUpTo(ScanLines, MaxLines) :
          tree = ScanTree(segment, lines)
    /\ hits = NoResult
    /\ IdleQuery
    /\ IdleDedupe
    /\ IdleCoord
    /\ IdlePull
    /\ IdleSanitize
    /\ IdleWalk
    /\ IdleScore
    /\ IdleList
    /\ IdleGates

\* line 407 for the file of the log directory /log: the records of the file,
\* read and parsed after the one wait of extractTasksFromJsonl
ScanLog ==
    /\ hits.t = "pending"
    /\ hits' = extractTasksFromJsonl(tree, ScanPath, Alice)
    /\ UNCHANGED <<queryVars, dedupeVars, coordVars, pullVars, sanitizeVars, walkVars,
                   scoreVars, listVars, gateVars>>

NextScan == ScanLog
SpecScan == InitScan /\ [][NextScan]_vars

\* the parsed line a record was made from
LineOfHit(hit) == Lookup(tree, hit.file).node.lines[hit.line].json

IsCodexHistory(record) ==
    Get(record, "text").t = "string" /\ Get(record, "ts").t \in {"number", "string"}
IsClaudeHistory(record) ==
    /\ Get(record, "display").t = "string"
    /\ Get(record, "timestamp").t \in {"number", "string"}
    /\ ~IsCodexHistory(record)

\* C23 as stated: every record made from a line of the Claude-history shape
\* has source claude, whatever the path and the other fields of the line.
C23_ClaudeShapeIsClaude ==
    hits.t = "ok" =>
        \A k \in 1..Len(hits.v) :
            IsClaudeHistory(LineOfHit(hits.v[k])) => hits.v[k].source = "claude"

ClassifiedCodex(hit) ==
    \/ \E i \in 1..(Len(hit.file) - 1) : hit.file[i] = DotCodex
    \/ Get(LineOfHit(hit), "ts").t = "number"
    \/ Get(LineOfHit(hit), "session_id").t = "string"

\* C23 (amended): every record made from a line of the Claude-history shape
\* has source codex when the file path has a .codex segment or the line bears
\* a numeric ts or a string session_id, and source claude otherwise.
C23_ClaudeShapeUnlessCodex ==
    hits.t = "ok" =>
        \A k \in 1..Len(hits.v) :
            IsClaudeHistory(LineOfHit(hits.v[k])) =>
                hits.v[k].source = IF ClassifiedCodex(hits.v[k]) THEN "codex" ELSE "claude"

\* a file outside .codex gave a codex record for a Claude-history line with a
\* string session_id and a claude record for one without
C23_Witness ==
    /\ hits.t = "ok"
    /\ \E i, j \in 1..Len(hits.v) :
          /\ IsClaudeHistory(LineOfHit(hits.v[i])) /\ IsClaudeHistory(LineOfHit(hits.v[j]))
          /\ ~PathHasSegment(hits.v[i].file, DotCodex)
          /\ Get(LineOfHit(hits.v[i]), "session_id").t = "string"
          /\ hits.v[i].source = "codex"
          /\ hits.v[j].source = "claude"

-----------------------------------------------------------------------------
(* listEngineerLogs on its own (part_003 163-203) *)

MaxTopDirs == 3
TopNames == <<Alice, Backend, Teams, Srv>>

BobLog   == Dir(Bob, TRUE, << Dir(LogName, TRUE, <<>>) >>)
CarolLog == Dir(Carol, TRUE, << Dir(LogName, TRUE, <<>>) >>)
\* what may stand at <root>/<name>: nothing, a file, or a directory that is
\* empty, holds log as a directory or as a file, holds log next to bob/log,
\* or holds bob without log, bob/log, or bob/log and carol/log
TopEntries(name) ==
    {<<>>,
     << File(name, TRUE, <<>>) >>,
     << Dir(name, TRUE, <<>>) >>,
     << Dir(name, TRUE, << Dir(LogName, TRUE, <<>>) >>) >>,
     << Dir(name, TRUE, << File(LogName, TRUE, <<>>) >>) >>,
     << Dir(name, TRUE, << BobLog, Dir(LogName, TRUE, <<>>) >>) >>,
     << Dir(name, TRUE, << Dir(Bob, TRUE, <<>>) >>) >>,
     << Dir(name, TRUE, << BobLog >>) >>,
     << Dir(name, TRUE, << File(Notes, TRUE, <<>>), BobLog, CarolLog >>) >>}

RECURSIVE RootEntries(_)
RootEntries(n) ==
    IF n = 0 THEN {<<>>}
    ELSE {rest \o top : rest \in RootEntries(n - 1), top \in TopEntries(TopNames[n])}

ListRoot == <<Srv>>
ListFilters ==
    {[teams |-> teams, engineers |-> engineers] :
        teams \in {Undefined, JArr(<<>>), JArr(<<Backend>>)},
        engineers \in {Undefined, JArr(<<>>), JArr(<<Bob>>), JArr(<<Alice, Carol>>)}}

\* the write another callback has in hand: none, or, where /srv/backend holds
\* bob/log and carol/log, backend emptied
ListWrites(fs) ==
    {NoWrite} \cup
    IF pathExists(fs, <<Srv, Backend, Carol, LogName>>)
    THEN {Write(Dir(<<>>, TRUE, << Dir(Srv, TRUE, << Dir(Backend, TRUE, <<>>) >>) >>))}
    ELSE {}

InitList ==
    /\ \E entries \in RootEntries(MaxTopDirs), filter \in ListFilters :
          /\ tree = Dir(<<>>, TRUE, << Dir(Srv, TRUE, entries) >>)
          /\ options = [prompt |-> <<>>, teamRoot |-> JStr(ListRoot),
                        teams |-> filter.teams, engineers |-> filter.engineers,
                        limit |-> Undefined]
          /\ pendingWrite \in ListWrites(tree)
    /\ listed = listEngineerLogs.outcome
    /\ locals = LocalsOf(listEngineerLogs)
    /\ nowMs = 0 /\ allTasks = <<>> /\ result = NoResult
    /\ IdleExtract
    /\ IdleDedupe
    /\ IdleCoord
    /\ IdlePull
    /\ IdleSanitize
    /\ IdleWalk
    /\ IdleScore
    /\ IdleGates

\* the call listEngineerLogs(teamRoot, options.teams, options.engineers), wait
\* by wait
ListEngineerLogs ==
    \/ ReaddirTeamRoot
    \/ AccessDirectLog
    \/ ReaddirTeam
    \/ AccessTeamLog

NextList == ListEngineerLogs \/ FileSystemChanges
SpecList == InitList /\ [][NextList]_vars

\* the names of the directories at a path
SubDirs(at) ==
    LET node == Lookup(tree, at).node
    IN  {node.entries[i].name : i \in {j \in 1..Len(node.entries) : node.entries[j].kind = "dir"}}
Exists(at) == Lookup(tree, at).found
\* a filter passes a name when it is absent or empty, or lists the name
Passes(filter, name) ==
    filter.t = "array" /\ filter.v # <<>> => \E i \in 1..Len(filter.v) : filter.v[i] = name

FlatLocations ==
    {[team |-> Undefined, engineer |-> e, logDir |-> ListRoot \o <<e, LogName>>] :
        e \in {d \in SubDirs(ListRoot) :
                  Exists(ListRoot \o <<d, LogName>>) /\ Passes(options.engineers, d)}}
TeamLocations(team) ==
    {[team |-> JStr(team), engineer |-> e, logDir |-> ListRoot \o <<team, e, LogName>>] :
        e \in {d \in SubDirs(ListRoot \o <<team>>) :
                  Exists(ListRoot \o <<team, d, LogName>>) /\ Passes(options.engineers, d)}}
NestedLocations ==
    UNION {TeamLocations(team) :
        team \in {d \in SubDirs(ListRoot) :
                     ~Exists(ListRoot \o <<d, LogName>>) /\ Passes(options.teams, d)}}

\* C24: over a file system that stays as it is during the call,
\* listEngineerLogs returns exactly the flat locations (top-level
\* directories with log that pass the engineer filter, without team label and
\* whatever the team filter) and the nested ones (engineers with log, passing
\* the engineer filter, below top-level directories without log that pass the
\* team filter), each once; an empty filter list filters nothing.
C24_LocationsListed ==
    (listed.t # "pending" /\ FileSystemStill) =>
        /\ listed.t = "ok"
        /\ {listed.v[k] : k \in 1..Len(listed.v)} = FlatLocations \cup NestedLocations
        /\ Cardinality({listed.v[k] : k \in 1..Len(listed.v)}) = Len(listed.v)

\* a flat engineer outside the team filter was listed next to a nested one,
\* and a team outside the team filter with an engineer with log was left out
C24_Witness ==
    /\ listed.t = "ok"
    /\ FileSystemStill
    /\ options.teams = JArr(<<Backend>>)
    /\ \E flat \in FlatLocations : flat.engineer # Backend
    /\ NestedLocations # {}
    /\ \E top \in SubDirs(ListRoot) :
          /\ top # Backend
          /\ ~Exists(ListRoot \o <<top, LogName>>)
          /\ Exists(ListRoot \o <<top, Bob, LogName>>)

(* Claims about the selection of a sync run *)

\* the limit asked for: 120 when omitted, never less than 1
RequestedPullLimit ==
    IF pullInput.limit.t = "number"
    THEN (IF pullInput.limit.n < 1 THEN 1 ELSE pullInput.limit.n)
    ELSE 120

\* the filter-matching cache rows whose session is not among the selected rows
LeftOut ==
    {i \in 1..Len(cacheRows) :
        /\ PassesPullFilters(cacheRows[i])
        /\ \A k \in 1..Len(selectedRows.v) : ~SameSession(cacheRows[i], selectedRows.v[k])}

\* C25: the selected rows are in non-increasing order of update time, are at
\* most the limit (120 when omitted, at least 1), and are the most recent: no
\* filter-matching row of a session left out is newer than a selected row.
C25_NewestSelected ==
    selectedRows.t = "ok" =>
        LET out == selectedRows.v
        IN  /\ \A k \in 1..(Len(out) - 1) : out[k].updatedAtUnix >= out[k + 1].updatedAtUnix
            /\ Len(out) <= RequestedPullLimit
            /\ \A i \in LeftOut : \A k \in 1..Len(out) :
                  cacheRows[i].updatedAtUnix <= out[k].updatedAtUnix
            /\ LeftOut # {} => Len(out) = RequestedPullLimit

\* a limit of 0 selected one row, the newest, and left out the older row of
\* another session
C25_Witness ==
    /\ selectedRows.t = "ok"
    /\ pullInput.limit = Limit(0)
    /\ Len(selectedRows.v) = 1
    /\ \E i \in LeftOut : cacheRows[i].updatedAtUnix < selectedRows.v[1].updatedAtUnix

-----------------------------------------------------------------------------
(* The sync coordinator when every run ends *)

\* a run in flight ends, in success or in failure
RunEnds == RunSucceeds \/ RunFails
SpecCoordFair == InitCoord /\ [][NextCoord]_vars /\ WF_vars(RunEnds)

\* C26: every enqueue call starts a run or finds one in flight and sets the
\* pending flag; the end of a run with the flag set clears it and starts exactly
\* one more run; and as every run ends, a set flag is always followed by the
\* start of a further run, so that every call is followed by a run that starts
\* at or after it.
C26_RequestNeverLost ==
    /\ [][Len(enqueueLog') = Len(enqueueLog) + 1 =>
            IF InFlight > 0
            THEN syncPending' /\ runsStarted' = runsStarted
            ELSE runsStarted' = runsStarted + 1]_vars
    /\ [][(runsFinished' = runsFinished + 1 /\ syncPending) =>
            ~syncPending' /\ runsStarted' = runsStarted + 1]_vars
    /\ \A r \in 0..MaxEnqueues :
          (syncPending /\ runsStarted = r) ~> (runsStarted > r)

\* a call that arrived during a run was followed by a further run, which ended
C26_Witness ==
    /\ \E k \in 1..Len(enqueueLog) : enqueueLog[k] > 0 /\ runsStarted > enqueueLog[k]
    /\ ~syncPending
    /\ ~syncRunning
    /\ runsFinished = runsStarted

(* Claims about the output files of a sync run *)

\* the content the out file of a row holds once the row alone wrote it
HoldsRow(f, row) == f.path = OutFile(row) /\ f.content.contextId = row.contextId

\* C27: no two distinct selected rows have the same output file path, so that
\* after a run that succeeded the out file of every selected row holds the
\* messages of that row, whatever the order in which the fetches completed.
C27_OneFilePerRow ==
    /\ selectedRows.t = "ok" =>
          \A i, j \in 1..Len(selectedRows.v) :
              i # j => OutFile(selectedRows.v[i]) # OutFile(selectedRows.v[j])
    /\ RunSucceeded =>
          \A i \in 1..Len(selectedRows.v) :
              \E f \in outFiles : HoldsRow(f, selectedRows.v[i])

\* the out file of every selected row holds that row, in runs whose selected
\* rows differ in source or session id
DistinctNamesKeepRows ==
    (RunSucceeded /\ \A i, j \in 1..Len(selectedRows.v) :
                        i # j => OutFile(selectedRows.v[i]) # OutFile(selectedRows.v[j])) =>
        \A i \in 1..Len(selectedRows.v) :
            \E f \in outFiles : HoldsRow(f, selectedRows.v[i])

-----------------------------------------------------------------------------
(* index.ts: queryWithDashboard and its animation gates.  A gate is named by  *)
(* the number of the call that made it; pendingAnimationGates is a function   *)
(* from the session ids that are keys of the Map to their queues.             *)

RLM_ANIMATION_MS == 14000
RLM_COMPLETION_GRACE_MS == 3000

MaxCalls == 3
SessionIds == {"s1", "s2"}
NoSession == "" \* sessionId absent (or empty): falsy at lines 297 and 371
\* Date.now() - startedAt once the log query and the themes are loaded
ElapsedChoices == {0, 14000, 16999, 17000}

EmptyMap == <<>>
MapHas(map, key) == key \in DOMAIN map
MapSet(map, key, value) ==
    [k \in DOMAIN map \cup {key} |-> IF k = key THEN value ELSE map[k]]
MapDelete(map, key) ==
    IF DOMAIN map \ {key} = {} THEN EmptyMap
    ELSE [k \in DOMAIN map \ {key} |-> map[k]]
\* pendingAnimationGates.get(sessionId), undefined as the empty sequence
QueueOf(map, sessionId) == IF MapHas(map, sessionId) THEN map[sessionId] ELSE <<>>

\* lines 171-192: the map once the gate is pushed
enqueueAnimationGate(map, sessionId, gate) ==
    MapSet(map, sessionId, Append(QueueOf(map, sessionId), gate))

\* the callback resolving the youngest gate
resolveAnimationGate_Newest(map, sessionId) ==
    LET queue == QueueOf(map, sessionId)
    IN  IF queue = <<>> THEN [map |-> map, resolved |-> {}, returns |-> FALSE]
        ELSE [map |-> IF Len(queue) = 1 THEN MapDelete(map, sessionId)
                      ELSE MapSet(map, sessionId, SubSeq(queue, 1, Len(queue) - 1)),
              resolved |-> {queue[Len(queue)]}, returns |-> TRUE]

\* lines 194-203: [map, resolved, returns]: the map after the call, the gates
\* whose resolve() was called, and the value returned
resolveAnimationGate(map, sessionId) ==
    LET queue == QueueOf(map, sessionId)
    IN  IF queue = <<>> THEN [map |-> map, resolved |-> {}, returns |-> FALSE]
        ELSE [map |-> IF Len(queue) = 1 THEN MapDelete(map, sessionId)
                      ELSE MapSet(map, sessionId, Tail(queue)),
              resolved |-> {Head(queue)}, returns |-> TRUE]

\* the removal that leaves the key of an emptied queue in the map
removeAnimationGate_KeepsKey(map, sessionId, gate) ==
    LET queue == QueueOf(map, sessionId)
    IN  IF queue = <<>> THEN map
        ELSE MapSet(map, sessionId, SelectSeq(queue, LAMBDA entry : entry # gate))

\* lines 205-212
removeAnimationGate(map, sessionId, gate) ==
    LET queue == QueueOf(map, sessionId)
        next  == SelectSeq(queue, LAMBDA entry : entry # gate)
    IN  IF queue = <<>> THEN map
        ELSE IF next = <<>> THEN MapDelete(map, sessionId)
        ELSE MapSet(map, sessionId, next)

\* lines 351-354
fallbackWaitMs(elapsedMs) == Max(0, RLM_ANIMATION_MS + RLM_COMPLETION_GRACE_MS - elapsedMs)

\* the wait that only the gate ends
raceSettled_GateOnly(settled, timer) == settled

\* line 356: Promise.race([animationGate.waitForCompletion, sleep(fallbackWaitMs)])
raceSettled(settled, timer) == settled \/ timer = "fired"

HasGate(call) == call.sessionId # NoSession
\* line 371, the finally block
finallyRemove(map, callId, call) ==
    IF HasGate(call) THEN removeAnimationGate(map, call.sessionId, callId) ELSE map

InitDash ==
    /\ pendingAnimationGates = EmptyMap
    /\ dashboardCalls = <<>>
    /\ tree = Undefined
    /\ IdleQuery
    /\ IdleExtract
    /\ IdleDedupe
    /\ IdleCoord
    /\ IdlePull
    /\ IdleSanitize
    /\ IdleWalk
    /\ IdleScore
    /\ IdleList

DashOthers == <<tree, queryVars, extractVars, dedupeVars, coordVars, pullVars, sanitizeVars,
                walkVars, scoreVars, listVars>>

\* lines 296-297: a call starts and, given a session id, queues its gate
StartQuery(sessionId) ==
    /\ Len(dashboardCalls) < MaxCalls
    /\ dashboardCalls' = Append(dashboardCalls,
            [sessionId |-> sessionId, phase |-> "querying", settled |-> FALSE,
             woke |-> "none"])
    /\ pendingAnimationGates' =
            IF sessionId # NoSession
            THEN enqueueAnimationGate(pendingAnimationGates, sessionId, Len(dashboardCalls) + 1)
            ELSE pendingAnimationGates
    /\ UNCHANGED DashOthers

\* the call returns the widget (lines 362-369) and its finally block runs;
\* woke tells what ended its wait, if it waited
Finish(c, phase, woke) ==
    /\ dashboardCalls' = [dashboardCalls EXCEPT ![c].phase = phase, ![c].woke = woke]
    /\ pendingAnimationGates' = finallyRemove(pendingAnimationGates, c, dashboardCalls[c])

\* lines 313-360: the log query and the themes are loaded after elapsedMs
QueryReturns(c, elapsedMs) ==
    /\ dashboardCalls[c].phase = "querying"
    /\ IF HasGate(dashboardCalls[c])
       THEN IF fallbackWaitMs(elapsedMs) > 0
            THEN /\ dashboardCalls' = [dashboardCalls EXCEPT ![c].phase = "waiting"]
                 /\ UNCHANGED pendingAnimationGates
            ELSE Finish(c, "returned", "none")
       ELSE IF elapsedMs < RLM_ANIMATION_MS
            THEN /\ dashboardCalls' = [dashboardCalls EXCEPT ![c].phase = "sleeping"]
                 /\ UNCHANGED pendingAnimationGates
            ELSE Finish(c, "returned", "none")
    /\ UNCHANGED DashOthers

\* lines 313-323: the log query or the load of the themes rejects
QueryThrows(c) ==
    /\ dashboardCalls[c].phase = "querying"
    /\ Finish(c, "thrown", "none")
    /\ UNCHANGED DashOthers

\* lines 146-149, then 356-371 or 359-371: the timer of sleep() fires, the
\* awaited race or sleep settles, and the call goes on to return
TimerFires(c) ==
    /\ \/ /\ dashboardCalls[c].phase = "waiting"
          /\ raceSettled(dashboardCalls[c].settled, "fired")
       \/ dashboardCalls[c].phase = "sleeping"
    /\ Finish(c, "returned", "timer")
    /\ UNCHANGED DashOthers

\* lines 356-371: the race has settled by the gate and the call goes on to return
Resume(c) ==
    /\ dashboardCalls[c].phase = "waiting"
    /\ raceSettled(dashboardCalls[c].settled, "armed")
    /\ Finish(c, "returned", "gate")
    /\ UNCHANGED DashOthers

\* lines 387-389: the dashboard-rlm-complete callback of a session
Complete(sessionId) ==
    /\ LET step == resolveAnimationGate(pendingAnimationGates, sessionId)
       IN  /\ pendingAnimationGates' = step.map
           /\ dashboardCalls' = [c \in DOMAIN dashboardCalls |->
                  IF c \in step.resolved
                  THEN [dashboardCalls[c] EXCEPT !.settled = TRUE]
                  ELSE dashboardCalls[c]]
    /\ UNCHANGED DashOthers

NextDash ==
    \/ \E sessionId \in SessionIds \cup {NoSession} : StartQuery(sessionId)
    \/ \E c \in DOMAIN dashboardCalls, elapsedMs \in ElapsedChoices : QueryReturns(c, elapsedMs)
    \/ \E c \in DOMAIN dashboardCalls : QueryThrows(c)
    \/ \E c \in DOMAIN dashboardCalls : TimerFires(c)
    \/ \E c \in DOMAIN dashboardCalls : Resume(c)
    \/ \E sessionId \in SessionIds : Complete(sessionId)

SpecDash == InitDash /\ [][NextDash]_vars

(* Claims about the animation gates *)

Calls == DOMAIN dashboardCalls
HasReturned(c) == dashboardCalls[c].phase \in {"returned", "thrown"}
\* the gate of call c is in a queue of the map
InMap(c) ==
    \E key \in DOMAIN pendingAnimationGates :
        \E i \in 1..Len(pendingAnimationGates[key]) : pendingAnimationGates[key][i] = c
NoEmptyQueue ==
    \A key \in DOMAIN pendingAnimationGates : pendingAnimationGates[key] # <<>>

\* C28 as stated: the map holds no empty queue, and the gate of a query is in
\* the map exactly while the query has not yet returned.
C28_GateInMapUntilReturn ==
    /\ NoEmptyQueue
    /\ \A c \in Calls : HasGate(dashboardCalls[c]) => (InMap(c) <=> ~HasReturned(c))

\* C28 (amended): the map holds no empty queue; the gate of a query is in the
\* map, once and in the queue of its session, exactly while the query has not
\* yet returned and no completion callback has resolved the gate; so once the
\* query returns or throws its gate is in no queue.
C28_GateInMapUntilResolvedOrReturn ==
    /\ NoEmptyQueue
    /\ \A key \in DOMAIN pendingAnimationGates :
          \A i \in 1..Len(pendingAnimationGates[key]) :
              LET c == pendingAnimationGates[key][i]
              IN  /\ c \in Calls
                  /\ dashboardCalls[c].sessionId = key
                  /\ \A j \in 1..Len(pendingAnimationGates[key]) :
                        pendingAnimationGates[key][j] = c => j = i
    /\ \A c \in Calls :
          HasGate(dashboardCalls[c]) =>
              (InMap(c) <=> (~HasReturned(c) /\ ~dashboardCalls[c].settled))
    /\ \A c \in Calls : ~HasGate(dashboardCalls[c]) => ~InMap(c)

\* a callback resolved the gate of a query still under way, whose session has
\* a younger gate in the map, and another query of the session has returned
C28_Witness ==
    \E c, d, e \in Calls :
        /\ c < d
        /\ dashboardCalls[c].sessionId = dashboardCalls[d].sessionId
        /\ dashboardCalls[e].sessionId = dashboardCalls[c].sessionId
        /\ dashboardCalls[c].settled /\ ~HasReturned(c) /\ ~InMap(c)
        /\ InMap(d)
        /\ HasReturned(e) /\ ~InMap(e)

\* the gates of the queue of a session, oldest first
PendingOf(sessionId) == QueueOf(pendingAnimationGates, sessionId)

\* C29: one completion callback for session S resolves the oldest gate pending
\* for S and no other: the gate leaves the head of the queue of S and is
\* settled, the younger gates of S stay behind it and unresolved, the queues
\* and gates of the other sessions and every call's progress stay as they are;
\* when S has no pending gate the callback changes nothing.
C29_CallbackResolvesOldest ==
    [][\A sessionId \in SessionIds :
          Complete(sessionId) =>
              IF PendingOf(sessionId) = <<>>
              THEN UNCHANGED <<pendingAnimationGates, dashboardCalls>>
              ELSE LET oldest == Head(PendingOf(sessionId))
                   IN  /\ QueueOf(pendingAnimationGates', sessionId) = Tail(PendingOf(sessionId))
                       /\ \A other \in SessionIds \ {sessionId} :
                             QueueOf(pendingAnimationGates', other) = PendingOf(other)
                       /\ DOMAIN dashboardCalls' = DOMAIN dashboardCalls
                       /\ dashboardCalls'[oldest].settled
                       /\ \A c \in Calls :
                             /\ c # oldest => dashboardCalls'[c] = dashboardCalls[c]
                             /\ dashboardCalls'[c].phase = dashboardCalls[c].phase
                             /\ dashboardCalls'[c].sessionId = dashboardCalls[c].sessionId]_vars

\* the oldest of two gates of a session was resolved while the younger one and
\* the gate of another session are pending and unresolved
C29_Witness ==
    \E c, d, e \in Calls :
        /\ c < d
        /\ dashboardCalls[c].sessionId = dashboardCalls[d].sessionId
        /\ dashboardCalls[e].sessionId \notin {NoSession, dashboardCalls[c].sessionId}
        /\ dashboardCalls[c].settled /\ ~InMap(c)
        /\ ~dashboardCalls[d].settled /\ PendingOf(dashboardCalls[d].sessionId) = <<d>>
        /\ ~dashboardCalls[e].settled /\ PendingOf(dashboardCalls[e].sessionId) = <<e>>

-----------------------------------------------------------------------------
(* queryWithDashboard when timers fire and settled awaits resume *)

\* The event loop runs a timer that is due and a continuation whose promise
\* has settled: some waiting call wakes while one can. Calls are finitely
\* many and each wakes once, so no call is passed over for ever.
Wakes == \E c \in DOMAIN dashboardCalls : TimerFires(c) \/ Resume(c)

SpecDashFair == InitDash /\ [][NextDash]_vars /\ WF_vars(Wakes)

\* the log query of call c has terminated
QueryEnded(c) == c \in Calls /\ dashboardCalls[c].phase # "querying"

\* C30: every dashboard query whose log query has terminated eventually
\* returns or throws, with no completion callback needed: the firing of the
\* timer ends its wait.
C30_QueryReturnsWithoutCallback ==
    \A c \in 1..MaxCalls : QueryEnded(c) ~> (c \in Calls /\ HasReturned(c))

\* a query that waited on its gate has returned though no callback resolved
\* the gate, while another query of its session still waits
C30_Witness ==
    \E c, d \in Calls :
        /\ c # d
        /\ dashboardCalls[c].sessionId = dashboardCalls[d].sessionId
        /\ HasGate(dashboardCalls[c])
        /\ dashboardCalls[c].phase = "returned" /\ ~dashboardCalls[c].settled
        /\ dashboardCalls[c].woke = "timer"
        /\ dashboardCalls[d].phase = "waiting" /\ ~dashboardCalls[d].settled
=============================================================================
